---- MODULE Spec2Model ----
(***************************************************************************)
(* Model of gomsort: the method sorter (pkg/sorter).                       *)
(*                                                                         *)
(* Go strings are modelled as sequences of byte values, so that           *)
(* strings.Compare, string concatenation and the first-byte tests of the   *)
(* code are computed and not assumed.                                      *)
(***************************************************************************)
EXTENDS Integers, Sequences, FiniteSets, TLC

VARIABLES
    decls,      \* Sorter.file.Decls: the top-level declarations, in order
    prevDecls,  \* file.Decls as they were when the last Sort was entered
    callGraph,  \* the CallGraph the last Sort built
    methods,    \* the method list handed to sortMethods (GetMethods' result)
    sorted,     \* the list returned by sortMethods
    changed,    \* second result of Sort
    content,    \* first result of Sort: the rendered declaration order, or Nil
    err,        \* third result of Sort: TRUE when an error is returned
    runs,       \* number of Sort calls made so far
    history,    \* the changed flags the Sort calls returned, in call order
    todo,       \* CalculateMetrics: the keys its loop has still to visit
    stack,      \* calculateMaxDepth: the active invocations, innermost last
    visitedKeys, \* calculateMaxDepth: the keys that are true in its visited map
    pc,         \* position of the driver
    fs,         \* the file system: the directory or file found at each path
    config,     \* cmd.Config: DryRun and Paths
    pathIndex,  \* Run: index in config.Paths of the path being processed
    dirStack,   \* processDirectory: the active invocations, innermost last
    parsedFiles, \* the file names handed to parser.ParseFile, in call order
    writtenFiles, \* the file names handed to sorter.WriteFile, in call order
    runErr,     \* the error Run returned, or NoError
    buf         \* formatFile: the text format.Node wrote, as lines

depthVars == <<todo, stack, visitedKeys>>

driverVars == <<fs, config, pathIndex, dirStack, parsedFiles, writtenFiles, runErr, buf>>

vars == <<decls, prevDecls, callGraph, methods, sorted, changed, content, err, runs, history,
         todo, stack, visitedKeys, pc,
         fs, config, pathIndex, dirStack, parsedFiles, writtenFiles, runErr, buf>>

\* a nil error
NoError == <<>>

\* no command is running: the sorter is used on its own
NoDriver ==
    /\ fs = <<>>
    /\ config = [DryRun |-> FALSE, Paths |-> <<>>]
    /\ pathIndex = 0
    /\ dirStack = <<>>
    /\ parsedFiles = <<>>
    /\ writtenFiles = <<>>
    /\ runErr = NoError
    /\ buf = <<>>

\* a nil *MethodInfo is the empty list, a method the one-element list of its record
Nil == <<>>

\* the []byte result of Sort: nil, or the rendered text
NilContent == [nil |-> TRUE, text |-> <<>>]

Bytes(t) == [nil |-> FALSE, text |-> t]

(***************************************************************************)
(* Bounds                                                                  *)
(***************************************************************************)
MaxMethods == 3     \* longest method list given to sortMethods on its own
MaxDecls == 4       \* most declarations in a file
MaxRuns == 2        \* most Sort calls on one file

(***************************************************************************)
(* Strings                                                                 *)
(***************************************************************************)
Range(s) == {s[i] : i \in 1..Len(s)}

\* strings.Compare: byte-wise lexicographic order, -1 / 0 / 1
RECURSIVE StrCompare(_, _)
StrCompare(a, b) ==
    IF a = <<>> /\ b = <<>> THEN 0
    ELSE IF a = <<>> THEN -1
    ELSE IF b = <<>> THEN 1
    ELSE IF Head(a) < Head(b) THEN -1
    ELSE IF Head(a) > Head(b) THEN 1
    ELSE StrCompare(Tail(a), Tail(b))

\* isExported: the first byte is in 'A'..'Z'
isExported(name) == Len(name) > 0 /\ name[1] >= 65 /\ name[1] <= 90

\* methodKey: receiver + "." + method
methodKey(receiver, method) == receiver \o <<46>> \o method

(***************************************************************************)
(* MethodInfo, SortKey and the comparator                                  *)
(***************************************************************************)
SortKey(m) ==
    [ReceiverName |-> m.ReceiverName,
     IsExported   |-> m.IsExported,
     InDegree     |-> m.InDegree,
     MaxDepth     |-> m.MaxDepth,
     OriginalPos  |-> m.Position]

\* shouldSwap with MaxDepth compared before IsExported
shouldSwap_DepthBeforeExported(a, b) ==
    LET keyA == SortKey(a)
        keyB == SortKey(b)
    IN  IF keyA.ReceiverName # keyB.ReceiverName
          THEN StrCompare(keyA.ReceiverName, keyB.ReceiverName) > 0
        ELSE IF keyA.MaxDepth # keyB.MaxDepth
          THEN keyA.MaxDepth > keyB.MaxDepth
        ELSE IF keyA.IsExported # keyB.IsExported
          THEN ~keyA.IsExported
        ELSE IF keyA.InDegree # keyB.InDegree
          THEN keyA.InDegree < keyB.InDegree
        ELSE keyA.OriginalPos > keyB.OriginalPos

\* shouldSwap with InDegree compared before MaxDepth
shouldSwap_InDegreeBeforeDepth(a, b) ==
    LET keyA == SortKey(a)
        keyB == SortKey(b)
    IN  IF keyA.ReceiverName # keyB.ReceiverName
          THEN StrCompare(keyA.ReceiverName, keyB.ReceiverName) > 0
        ELSE IF keyA.IsExported # keyB.IsExported
          THEN ~keyA.IsExported
        ELSE IF keyA.InDegree # keyB.InDegree
          THEN keyA.InDegree < keyB.InDegree
        ELSE IF keyA.MaxDepth # keyB.MaxDepth
          THEN keyA.MaxDepth > keyB.MaxDepth
        ELSE keyA.OriginalPos > keyB.OriginalPos

\* shouldSwap that swaps whenever the two records differ in IsExported
shouldSwap_ExportedEitherWay(a, b) ==
    LET keyA == SortKey(a)
        keyB == SortKey(b)
    IN  IF keyA.ReceiverName # keyB.ReceiverName
          THEN StrCompare(keyA.ReceiverName, keyB.ReceiverName) > 0
        ELSE IF keyA.IsExported # keyB.IsExported
          THEN TRUE
        ELSE IF keyA.MaxDepth # keyB.MaxDepth
          THEN keyA.MaxDepth > keyB.MaxDepth
        ELSE IF keyA.InDegree # keyB.InDegree
          THEN keyA.InDegree < keyB.InDegree
        ELSE keyA.OriginalPos > keyB.OriginalPos

\* shouldSwap without the final comparison of the positions
shouldSwap_NoPositionFallback(a, b) ==
    LET keyA == SortKey(a)
        keyB == SortKey(b)
    IN  IF keyA.ReceiverName # keyB.ReceiverName
          THEN StrCompare(keyA.ReceiverName, keyB.ReceiverName) > 0
        ELSE IF keyA.IsExported # keyB.IsExported
          THEN ~keyA.IsExported
        ELSE IF keyA.MaxDepth # keyB.MaxDepth
          THEN keyA.MaxDepth > keyB.MaxDepth
        ELSE IF keyA.InDegree # keyB.InDegree
          THEN keyA.InDegree < keyB.InDegree
        ELSE FALSE

shouldSwap(a, b) ==
    LET keyA == SortKey(a)
        keyB == SortKey(b)
    IN  IF keyA.ReceiverName # keyB.ReceiverName
          THEN StrCompare(keyA.ReceiverName, keyB.ReceiverName) > 0
        ELSE IF keyA.IsExported # keyB.IsExported
          THEN ~keyA.IsExported
        ELSE IF keyA.MaxDepth # keyB.MaxDepth
          THEN keyA.MaxDepth > keyB.MaxDepth
        ELSE IF keyA.InDegree # keyB.InDegree
          THEN keyA.InDegree < keyB.InDegree
        ELSE keyA.OriginalPos > keyB.OriginalPos

\* the inner loop of sortMethods: j runs over 0 .. len-i-2 (here j0 is j+1)
RECURSIVE sortInner(_, _, _)
sortInner(s, j0, last) ==
    IF j0 > last THEN s
    ELSE IF shouldSwap(s[j0], s[j0 + 1])
      THEN sortInner([s EXCEPT ![j0] = s[j0 + 1], ![j0 + 1] = s[j0]], j0 + 1, last)
      ELSE sortInner(s, j0 + 1, last)

\* the outer loop of sortMethods: i runs over 0 .. len-2
RECURSIVE sortOuter(_, _)
sortOuter(s, i) ==
    IF i >= Len(s) - 1 THEN s
    ELSE sortOuter(sortInner(s, 1, Len(s) - i - 1), i + 1)

\* sortMethods that makes one pass of the inner loop only
sortMethods_OnePass(ms) == sortInner(ms, 1, Len(ms) - 1)

sortMethods(ms) == sortOuter(ms, 0)

(***************************************************************************)
(* Declarations.  A declaration of file.Decls is a record                  *)
(*   id        the identity of the node (the *dst.FuncDecl pointer)        *)
(*   kind      "func" for a *dst.FuncDecl, "gen" for any other declaration *)
(*   recvShape "none" (Recv == nil), "ident" (T), "star" ( *T ) or "other"  *)
(*             (a receiver type that is neither, such as T[K])             *)
(*   recvType  the identifier T of the receiver type (when "other", the    *)
(*             text of the type expression, which no code reads)           *)
(*   recvIdent the receiver parameter's name                               *)
(*   name      decl.Name.Name                                              *)
(*   hasBody   decl.Body != nil                                            *)
(*   body      the calls x.sel(...) of the body, in the order dst.Walk     *)
(*             meets them, each a record [x, sel]                          *)
(*   doc       the comments decorating the start of the node (Decs.Start) *)
(*   inner     the comments inside the body                                *)
(***************************************************************************)
\* extractMethodInfo that leaves the pointer in ReceiverName
extractMethodInfo_KeepStar(decl, position) ==
    IF decl.recvShape = "none" THEN Nil
    ELSE <<
         [Name         |-> decl.name,
          IsExported   |-> isExported(decl.name),
          FuncDecl     |-> decl.id,
          Position     |-> position,
          ReceiverType |-> CASE decl.recvShape = "ident" -> decl.recvType
                             [] decl.recvShape = "star"  -> <<42>> \o decl.recvType
                             [] OTHER                    -> <<>>,
          ReceiverName |-> CASE decl.recvShape = "ident" -> decl.recvType
                             [] decl.recvShape = "star"  -> <<42>> \o decl.recvType
                             [] OTHER                    -> <<>>,
          InDegree     |-> 0,
          MaxDepth     |-> 0] >>

extractMethodInfo(decl, position) ==
    IF decl.recvShape = "none" THEN Nil
    ELSE <<
         [Name         |-> decl.name,
          IsExported   |-> isExported(decl.name),
          FuncDecl     |-> decl.id,
          Position     |-> position,
          ReceiverType |-> CASE decl.recvShape = "ident" -> decl.recvType
                             [] decl.recvShape = "star"  -> <<42>> \o decl.recvType
                             [] OTHER                    -> <<>>,
          ReceiverName |-> CASE decl.recvShape = "ident" -> decl.recvType
                             [] decl.recvShape = "star"  -> decl.recvType
                             [] OTHER                    -> <<>>,
          InDegree     |-> 0,
          MaxDepth     |-> 0] >>

(***************************************************************************)
(* CallGraph (dst variant).  Go maps are functions on their key sets; a    *)
(* missing key of cg.calls reads as the empty list.                        *)
(***************************************************************************)
MapPut(m, k, v) == [x \in (DOMAIN m) \cup {k} |-> IF x = k THEN v ELSE m[x]]

MapGet(m, k) == IF k \in DOMAIN m THEN m[k] ELSE <<>>

EmptyMap == [x \in {} |-> <<>>]

NewCallGraph == [methods |-> EmptyMap, calls |-> EmptyMap]

AddMethod(cg, method) ==
    [cg EXCEPT !.methods = MapPut(cg.methods, methodKey(method.ReceiverName, method.Name), method)]

\* AddCall that does not ask whether the target is a known method
AddCall_NoTargetTest(cg, fromReceiver, fromMethod, toReceiver, toMethod) ==
    LET fromKey == methodKey(fromReceiver, fromMethod)
        toKey   == methodKey(toReceiver, toMethod)
    IN  [cg EXCEPT !.calls = MapPut(cg.calls, fromKey, Append(MapGet(cg.calls, fromKey), toKey))]

AddCall(cg, fromReceiver, fromMethod, toReceiver, toMethod) ==
    LET fromKey == methodKey(fromReceiver, fromMethod)
        toKey   == methodKey(toReceiver, toMethod)
    IN  IF toKey \in DOMAIN cg.methods
          THEN [cg EXCEPT !.calls = MapPut(cg.calls, fromKey, Append(MapGet(cg.calls, fromKey), toKey))]
          ELSE cg

\* strings.EqualFold on two one-byte strings
FoldByte(c) == IF c >= 65 /\ c <= 90 THEN c + 32 ELSE c

EqualFold1(a, b) == FoldByte(a) = FoldByte(b)

Self == <<115, 101, 108, 102>>

\* callVisitor.Visit on one call expression x.sel(...)
Visit(cg, currentReceiver, currentMethod, call) ==
    IF \/ call.x = Self
       \/ call.x = currentReceiver
       \/ /\ Len(call.x) = 1
          /\ Len(currentReceiver) > 0
          /\ EqualFold1(call.x[1], currentReceiver[1])
      THEN AddCall(cg, currentReceiver, currentMethod, currentReceiver, call.sel)
      ELSE cg

\* dst.Walk(visitor, funcDecl.Body)
RECURSIVE Walk(_, _, _, _)
Walk(cg, currentReceiver, currentMethod, body) ==
    IF body = <<>> THEN cg
    ELSE Walk(Visit(cg, currentReceiver, currentMethod, Head(body)),
              currentReceiver, currentMethod, Tail(body))

\* first pass of buildCallGraph: collect all methods
RECURSIVE collectMethods(_, _, _)
collectMethods(cg, ds, position) ==
    IF ds = <<>> THEN cg
    ELSE LET method == IF Head(ds).kind = "func"
                         THEN extractMethodInfo(Head(ds), position) ELSE Nil
         IN  IF method # Nil
               THEN collectMethods(AddMethod(cg, method[1]), Tail(ds), position + 1)
               ELSE collectMethods(cg, Tail(ds), position)

\* second pass of buildCallGraph: analyze method calls
RECURSIVE analyzeCalls(_, _)
analyzeCalls(cg, ds) ==
    IF ds = <<>> THEN cg
    ELSE LET method == IF Head(ds).kind = "func"
                         THEN extractMethodInfo(Head(ds), 0) ELSE Nil
         IN  IF method # Nil /\ Head(ds).hasBody
               THEN analyzeCalls(Walk(cg, method[1].ReceiverName, method[1].Name, Head(ds).body), Tail(ds))
               ELSE analyzeCalls(cg, Tail(ds))

\* number of entries of a list equal to k
RECURSIVE CountIn(_, _)
CountIn(list, k) ==
    IF list = <<>> THEN 0
    ELSE (IF Head(list) = k THEN 1 ELSE 0) + CountIn(Tail(list), k)

\* the inDegree map of CalculateMetrics: one increment per entry of every call list
RECURSIVE inDegreeOf(_, _, _)
inDegreeOf(cg, keys, k) ==
    IF keys = <<>> THEN 0
    ELSE CountIn(MapGet(cg.calls, Head(keys)), k) + inDegreeOf(cg, Tail(keys), k)

RECURSIVE calculateMaxDepth(_, _, _)
RECURSIVE maxOverCalls(_, _, _, _)
calculateMaxDepth(cg, key, visited) ==
    IF key \in visited THEN 0
    ELSE maxOverCalls(cg, MapGet(cg.calls, key), visited \cup {key}, 0)

\* the loop over cg.calls[methodKey] inside calculateMaxDepth
maxOverCalls(cg, calls, visited, maxDepth) ==
    IF calls = <<>> THEN maxDepth
    ELSE LET depth == calculateMaxDepth(cg, Head(calls), visited)
         IN  maxOverCalls(cg, Tail(calls), visited,
                          IF depth + 1 > maxDepth THEN depth + 1 ELSE maxDepth)

\* sort.Strings on a set of distinct keys
RECURSIVE SortStrings(_)
SortStrings(S) ==
    IF S = {} THEN <<>>
    ELSE LET least == CHOOSE k \in S : \A o \in S : StrCompare(k, o) <= 0
         IN  <<least>> \o SortStrings(S \ {least})

CalculateMetrics(cg) ==
    LET keys == SortStrings(DOMAIN cg.methods)
    IN  [cg EXCEPT !.methods =
           [key \in DOMAIN cg.methods |->
              [cg.methods[key] EXCEPT !.MaxDepth = calculateMaxDepth(cg, key, {}),
                                      !.InDegree = inDegreeOf(cg, keys, key)]]]

buildCallGraph(ds) ==
    CalculateMetrics(analyzeCalls(collectMethods(NewCallGraph, ds, 0), ds))

\* sort.Slice by Position: insertion of one record into a list ordered by Position
RECURSIVE insertByPosition(_, _)
insertByPosition(list, m) ==
    IF list = <<>> THEN <<m>>
    ELSE IF m.Position < Head(list).Position THEN <<m>> \o list
    ELSE <<Head(list)>> \o insertByPosition(Tail(list), m)

RECURSIVE sortByPosition(_, _)
sortByPosition(list, acc) ==
    IF list = <<>> THEN acc
    ELSE sortByPosition(Tail(list), insertByPosition(acc, Head(list)))

\* GetMethods without the final sort by Position: the methods in key order
GetMethods_KeyOrder(cg) ==
    LET keys == SortStrings(DOMAIN cg.methods)
    IN  [i \in 1..Len(keys) |-> cg.methods[keys[i]]]

GetMethods(cg) ==
    LET keys == SortStrings(DOMAIN cg.methods)
    IN  sortByPosition([i \in 1..Len(keys) |-> cg.methods[keys[i]]], <<>>)

(***************************************************************************)
(* Sorter (dst variant)                                                    *)
(***************************************************************************)
\* hasOrderChanged that returns after looking at the first pair only
hasOrderChanged_FirstOnly(original, sortedMs) ==
    IF Len(original) # Len(sortedMs) THEN TRUE
    ELSE Len(original) > 0 /\ original[1].Position # sortedMs[1].Position

hasOrderChanged(original, sortedMs) ==
    IF Len(original) # Len(sortedMs) THEN TRUE
    ELSE \E i \in 1..Len(original) : original[i].Position # sortedMs[i].Position

\* reorderMethods that moves the nodes but leaves every comment at the place
\* in the file where it was
reorderMethods_CommentsStay(ds, sortedMethods) ==
    LET methodMap == {sortedMethods[i].FuncDecl : i \in 1..Len(sortedMethods)}
        keep(d)   == ~(d.kind = "func" /\ d.id \in methodMap)
        declOf(m) == CHOOSE d \in Range(ds) : d.id = m.FuncDecl
        moved     == SelectSeq(ds, keep) \o [i \in 1..Len(sortedMethods) |-> declOf(sortedMethods[i])]
    IN  [i \in 1..Len(moved) |-> [moved[i] EXCEPT !.doc = ds[i].doc, !.inner = ds[i].inner]]

\* reorderMethods whose lookup map is keyed by receiver and name, not by node
reorderMethods_ByKey(ds, sortedMethods) ==
    LET methodMap == {methodKey(sortedMethods[i].ReceiverName, sortedMethods[i].Name) :
                        i \in 1..Len(sortedMethods)}
        keyOf(d)  == LET m == extractMethodInfo(d, 0)
                     IN  IF m = Nil THEN <<>> ELSE methodKey(m[1].ReceiverName, m[1].Name)
        keep(d)   == ~(d.kind = "func" /\ keyOf(d) \in methodMap)
        declOf(m) == CHOOSE d \in Range(ds) : d.id = m.FuncDecl
    IN  SelectSeq(ds, keep) \o [i \in 1..Len(sortedMethods) |-> declOf(sortedMethods[i])]

reorderMethods(ds, sortedMethods) ==
    LET methodMap == {sortedMethods[i].FuncDecl : i \in 1..Len(sortedMethods)}
        keep(d)   == ~(d.kind = "func" /\ d.id \in methodMap)
        declOf(m) == CHOOSE d \in Range(ds) : d.id = m.FuncDecl
    IN  SelectSeq(ds, keep) \o [i \in 1..Len(sortedMethods) |-> declOf(sortedMethods[i])]

(***************************************************************************)
(* sortMethods on its own: any list of method records with pairwise        *)
(* distinct positions                                                      *)
(***************************************************************************)
Client == <<67, 108, 105, 101, 110, 116>>
Server == <<83, 101, 114, 118, 101, 114>>

SortReceivers == {Client, Server}
\* the <<MaxDepth, InDegree>> pairs of the records
MetricPairs == {<<0, 0>>, <<0, 1>>, <<1, 1>>}

Injective(f) == \A i, j \in DOMAIN f : f[i] = f[j] => i = j

InitSort ==
    /\ \E n \in 0..MaxMethods :
         \E key \in [1..n -> [ReceiverName : SortReceivers, IsExported : BOOLEAN,
                              metrics : MetricPairs]] :
           \E pos \in {f \in [1..n -> 0..(n - 1)] : Injective(f)} :
             methods = [i \in 1..n |->
                          [Name         |-> <<109>>,
                           ReceiverName |-> key[i].ReceiverName,
                           ReceiverType |-> key[i].ReceiverName,
                           IsExported   |-> key[i].IsExported,
                           FuncDecl     |-> i,
                           Position     |-> pos[i],
                           InDegree     |-> key[i].metrics[2],
                           MaxDepth     |-> key[i].metrics[1]]]
    /\ sorted = <<>>
    /\ decls = <<>>
    /\ prevDecls = <<>>
    /\ callGraph = NewCallGraph
    /\ changed = FALSE
    /\ content = NilContent
    /\ err = FALSE
    /\ runs = 0
    /\ history = <<>>
    /\ todo = <<>>
    /\ stack = <<>>
    /\ visitedKeys = {}
    /\ pc = "input"
    /\ NoDriver

SortMethodsCall ==
    /\ pc = "input"
    /\ sorted' = sortMethods(methods)
    /\ pc' = "sorted"
    /\ UNCHANGED <<decls, prevDecls, callGraph, methods, changed, content, err, runs, history>>
    /\ UNCHANGED depthVars
    /\ UNCHANGED driverVars

NextSort == SortMethodsCall

SpecSort == InitSort /\ [][NextSort]_vars

(***************************************************************************)
(* Rendering and parsing.  decorator.Fprint writes the declarations in     *)
(* the order of file.Decls; decorator.Parse of that text builds fresh      *)
(* nodes in the same order.                                                *)
(***************************************************************************)
Text(d) ==
    [kind |-> d.kind, recvShape |-> d.recvShape, recvType |-> d.recvType,
     recvIdent |-> d.recvIdent, name |-> d.name, hasBody |-> d.hasBody, body |-> d.body,
     doc |-> d.doc, inner |-> d.inner]

Node(t, i) ==
    [id |-> i, kind |-> t.kind, recvShape |-> t.recvShape, recvType |-> t.recvType,
     recvIdent |-> t.recvIdent, name |-> t.name, hasBody |-> t.hasBody, body |-> t.body,
     doc |-> t.doc, inner |-> t.inner]

Fprint(ds) == [i \in 1..Len(ds) |-> Text(ds[i])]

Parse(src) == [i \in 1..Len(src) |-> Node(src[i], i)]

(***************************************************************************)
(* The declarations files are made of                                      *)
(***************************************************************************)
s_ == <<115>>
c_ == <<99>>
helper == <<104, 101, 108, 112, 101, 114>>
Start == <<83, 116, 97, 114, 116>>
connect == <<99, 111, 110, 110, 101, 99, 116>>
Stop == <<83, 116, 111, 112>>
dial == <<100, 105, 97, 108>>
NotAMethod == <<78, 111, 116, 65, 77, 101, 116, 104, 111, 100>>

Method(shape, type, ident, name, calls) ==
    [kind |-> "func", recvShape |-> shape, recvType |-> type, recvIdent |-> ident,
     name |-> name, hasBody |-> TRUE,
     body |-> [i \in 1..Len(calls) |-> [x |-> ident, sel |-> calls[i]]],
     doc |-> <<>>, inner |-> <<>>]

\* type Server struct{ addr string }
TypeDecl ==
    [kind |-> "gen", recvShape |-> "none", recvType |-> <<>>, recvIdent |-> <<>>,
     name |-> Server, hasBody |-> FALSE, body |-> <<>>, doc |-> <<>>, inner |-> <<>>]

\* func NotAMethod() {}
FreeFunc ==
    [kind |-> "func", recvShape |-> "none", recvType |-> <<>>, recvIdent |-> <<>>,
     name |-> NotAMethod, hasBody |-> TRUE, body |-> <<>>, doc |-> <<>>, inner |-> <<>>]

\* func (s *Server) helper() string { return "help" }
HelperDecl == Method("star", Server, s_, helper, <<>>)

\* func (s *Server) Start() error { return s.connect() }
StartDecl == Method("star", Server, s_, Start, <<connect>>)

\* func (s *Server) connect() error { s.helper(); return nil }
ConnectDecl == Method("star", Server, s_, connect, <<helper>>)

\* func (s *Server) Stop() error { return nil }
StopDecl == Method("star", Server, s_, Stop, <<>>)

\* func (s Server) connect() error { s.helper(); s.helper(); return nil }
ConnectTwiceDecl == Method("ident", Server, s_, connect, <<helper, helper>>)

\* func (c Client) dial() error { return c.dial() }
DialDecl == Method("ident", Client, c_, dial, <<dial>>)

DeclPool ==
    {TypeDecl, FreeFunc, HelperDecl, StartDecl, ConnectDecl, StopDecl,
     ConnectTwiceDecl, DialDecl}

(***************************************************************************)
(* Sort on a file (dst variant): NewFromSource, Sort, and NewFromSource on *)
(* the text a Sort returned                                                *)
(***************************************************************************)
Init ==
    /\ \E n \in 0..MaxDecls : \E src \in [1..n -> DeclPool] : decls = Parse(src)
    /\ prevDecls = <<>>
    /\ callGraph = NewCallGraph
    /\ methods = <<>>
    /\ sorted = <<>>
    /\ changed = FALSE
    /\ content = NilContent
    /\ err = FALSE
    /\ runs = 0
    /\ history = <<>>
    /\ todo = <<>>
    /\ stack = <<>>
    /\ visitedKeys = {}
    /\ pc = "parsed"
    /\ NoDriver

\* Sorter.Sort; rendered tells whether decorator.Fprint succeeds
Sort(rendered) ==
    /\ pc = "parsed"
    /\ \E cg \in {buildCallGraph(decls)} :
       \E ms \in {GetMethods(cg)} :
       \E sortedMethods \in {IF Len(ms) = 0 THEN <<>> ELSE sortMethods(ms)} :
       \E ch \in {IF Len(ms) = 0 THEN FALSE ELSE hasOrderChanged(ms, sortedMethods)} :
       \E newDecls \in {IF ch THEN reorderMethods(decls, sortedMethods) ELSE decls} :
           /\ callGraph' = cg
           /\ methods' = ms
           /\ sorted' = sortedMethods
           /\ changed' = ch
           /\ history' = Append(history, ch)
           /\ decls' = newDecls
           /\ content' = IF rendered THEN Bytes(Fprint(newDecls)) ELSE NilContent
           /\ err' = ~rendered
    /\ prevDecls' = decls
    /\ runs' = runs + 1
    /\ pc' = "done"
    /\ UNCHANGED depthVars
    /\ UNCHANGED driverVars

\* NewFromSource on the text returned by the last Sort
Reparse ==
    /\ pc = "done"
    /\ ~err
    /\ runs < MaxRuns
    /\ decls' = Parse(content.text)
    /\ pc' = "parsed"
    /\ UNCHANGED <<prevDecls, callGraph, methods, sorted, changed, content, err, runs, history>>
    /\ UNCHANGED depthVars
    /\ UNCHANGED driverVars

Next ==
    \/ \E rendered \in BOOLEAN : Sort(rendered)
    \/ Reparse

Spec == Init /\ [][Next]_vars

(***************************************************************************)
(* Files for the call graph: cyclic calls, receiver parameters of more     *)
(* than one letter, receiver types that are no identifier, calls to names  *)
(* declared on another type, and comments                                  *)
(***************************************************************************)
MaxGraphDecls == 3  \* most declarations in such a file

db == <<100, 98>>
q_ == <<113>>
Database == <<68, 97, 116, 97, 98, 97, 115, 101>>
StackT == <<83, 116, 97, 99, 107, 91, 84, 93>>
QueueT == <<81, 117, 101, 117, 101, 91, 84, 93>>
methodA == <<109, 101, 116, 104, 111, 100, 65>>
methodB == <<109, 101, 116, 104, 111, 100, 66>>
Close == <<67, 108, 111, 115, 101>>
cleanup == <<99, 108, 101, 97, 110, 117, 112>>
reset == <<114, 101, 115, 101, 116>>
clear == <<99, 108, 101, 97, 114>>
Serve == <<83, 101, 114, 118, 101>>
\* "// Close releases the connection"
CloseDoc == <<47, 47, 32, 67, 108, 111, 115, 101, 32, 114, 101, 108, 101, 97, 115, 101, 115, 32, 116, 104, 101, 32, 99, 111, 110, 110, 101, 99, 116, 105, 111, 110>>
\* "// flush first"
CloseInner == <<47, 47, 32, 102, 108, 117, 115, 104, 32, 102, 105, 114, 115, 116>>
\* "// Creates a cycle"
CycleComment == <<47, 47, 32, 67, 114, 101, 97, 116, 101, 115, 32, 97, 32, 99, 121, 99, 108, 101>>

Commented(d, doc, inner) == [d EXCEPT !.doc = doc, !.inner = inner]

\* func (s *Server) methodA() error { return s.methodB() }
MethodADecl == Method("star", Server, s_, methodA, <<methodB>>)

\* func (s *Server) methodB() error { return s.methodA() // Creates a cycle }
MethodBDecl == Commented(Method("star", Server, s_, methodB, <<methodA>>), <<>>, <<CycleComment>>)

\* // Close releases the connection
\* func (db *Database) Close() error { /* flush first */ return db.cleanup() }
CloseDecl == Commented(Method("star", Database, db, Close, <<cleanup>>), <<CloseDoc>>, <<CloseInner>>)

\* func (db *Database) cleanup() error { return nil }
CleanupDecl == Method("star", Database, db, cleanup, <<>>)

\* func (s *Stack[T]) reset() { s.clear() }
StackResetDecl == Method("other", StackT, s_, reset, <<clear>>)

\* func (q *Queue[T]) reset() {}
QueueResetDecl == Method("other", QueueT, q_, reset, <<>>)

\* func (s *Server) Serve() error { return s.cleanup() }
ServeDecl == Method("star", Server, s_, Serve, <<cleanup>>)

GraphPool ==
    {TypeDecl, FreeFunc, MethodADecl, MethodBDecl, CloseDecl, CleanupDecl,
     StackResetDecl, QueueResetDecl, ServeDecl, DialDecl}

InitGraph ==
    /\ \E n \in 0..MaxGraphDecls : \E src \in [1..n -> GraphPool] : decls = Parse(src)
    /\ prevDecls = <<>>
    /\ callGraph = NewCallGraph
    /\ methods = <<>>
    /\ sorted = <<>>
    /\ changed = FALSE
    /\ content = NilContent
    /\ err = FALSE
    /\ runs = 0
    /\ history = <<>>
    /\ todo = <<>>
    /\ stack = <<>>
    /\ visitedKeys = {}
    /\ pc = "parsed"
    /\ NoDriver

SpecGraph == InitGraph /\ [][Next]_vars

(***************************************************************************)
(* CalculateMetrics (dst variant) step by step: the loop over the sorted   *)
(* keys, and calculateMaxDepth with its invocations on a stack.  A frame   *)
(* is an invocation past its visited test: [key, i, maxDepth] with i the   *)
(* index of the next entry of cg.calls[key] to look at.                    *)
(***************************************************************************)
MaxStack == 6       \* invocations the goroutine stack has room for

\* the graph as buildCallGraph hands it to CalculateMetrics
InitDepth ==
    /\ \E n \in 0..MaxGraphDecls : \E src \in [1..n -> GraphPool] :
          callGraph = analyzeCalls(collectMethods(NewCallGraph, Parse(src), 0), Parse(src))
    /\ decls = <<>>
    /\ prevDecls = <<>>
    /\ methods = <<>>
    /\ sorted = <<>>
    /\ changed = FALSE
    /\ content = NilContent
    /\ err = FALSE
    /\ runs = 0
    /\ history = <<>>
    /\ todo = <<>>
    /\ stack = <<>>
    /\ visitedKeys = {}
    /\ pc = "built"
    /\ NoDriver

metricsFrame == <<decls, prevDecls, methods, sorted, changed, content, err, runs, history>>

Max(a, b) == IF a > b THEN a ELSE b

\* CalculateMetrics up to its second loop: keys collected and sorted
CalculateMetricsEnter ==
    /\ pc = "built"
    /\ todo' = SortStrings(DOMAIN callGraph.methods)
    /\ pc' = "loop"
    /\ UNCHANGED <<callGraph, stack, visitedKeys>>
    /\ UNCHANGED metricsFrame
    /\ UNCHANGED driverVars

\* one turn of the loop begins: a fresh visited map, calculateMaxDepth(key, visited)
\* passes its visited test and marks key
LoopCall ==
    /\ pc = "loop"
    /\ todo # <<>>
    /\ stack' = <<[key |-> Head(todo), i |-> 1, maxDepth |-> 0]>>
    /\ visitedKeys' = {Head(todo)}
    /\ pc' = "depth"
    /\ UNCHANGED <<callGraph, todo>>
    /\ UNCHANGED metricsFrame
    /\ UNCHANGED driverVars

\* the loop is over: CalculateMetrics returns
LoopEnd ==
    /\ pc = "loop"
    /\ todo = <<>>
    /\ pc' = "returned"
    /\ UNCHANGED <<callGraph, todo, stack, visitedKeys>>
    /\ UNCHANGED metricsFrame
    /\ UNCHANGED driverVars

\* DepthCall that does not look at the visited map
DepthCall_NoVisitedTest ==
    /\ pc = "depth"
    /\ LET top == stack[Len(stack)]
           calls == MapGet(callGraph.calls, top.key)
       IN  /\ top.i <= Len(calls)
           /\ IF Len(stack) >= MaxStack
                THEN /\ pc' = "overflow"
                     /\ UNCHANGED <<stack, visitedKeys>>
                ELSE /\ stack' = Append(stack, [key |-> calls[top.i], i |-> 1, maxDepth |-> 0])
                     /\ visitedKeys' = visitedKeys \cup {calls[top.i]}
                     /\ pc' = "depth"
    /\ UNCHANGED <<callGraph, todo>>
    /\ UNCHANGED metricsFrame
    /\ UNCHANGED driverVars

\* the innermost invocation calls calculateMaxDepth on its next entry: a
\* visited callee returns 0 at once, any other becomes the innermost
\* invocation, unless the stack has no room for it
DepthCall ==
    /\ pc = "depth"
    /\ LET top == stack[Len(stack)]
           calls == MapGet(callGraph.calls, top.key)
       IN  /\ top.i <= Len(calls)
           /\ IF calls[top.i] \in visitedKeys
                THEN /\ stack' = [stack EXCEPT ![Len(stack)] =
                                    [key |-> top.key, i |-> top.i + 1,
                                     maxDepth |-> Max(top.maxDepth, 0 + 1)]]
                     /\ UNCHANGED <<visitedKeys, pc>>
                ELSE IF Len(stack) >= MaxStack
                THEN /\ pc' = "overflow"
                     /\ UNCHANGED <<stack, visitedKeys>>
                ELSE /\ stack' = Append(stack, [key |-> calls[top.i], i |-> 1, maxDepth |-> 0])
                     /\ visitedKeys' = visitedKeys \cup {calls[top.i]}
                     /\ pc' = "depth"
    /\ UNCHANGED <<callGraph, todo>>
    /\ UNCHANGED metricsFrame
    /\ UNCHANGED driverVars

\* the innermost invocation has looked at all its entries: it unmarks its key
\* and returns maxDepth, to its caller or to the loop of CalculateMetrics,
\* which stores it with the InDegree of the key
DepthReturn ==
    /\ pc = "depth"
    /\ LET top == stack[Len(stack)]
           calls == MapGet(callGraph.calls, top.key)
           rest == SubSeq(stack, 1, Len(stack) - 1)
       IN  /\ top.i > Len(calls)
           /\ visitedKeys' = visitedKeys \ {top.key}
           /\ IF rest = <<>>
                THEN /\ stack' = <<>>
                     /\ callGraph' = [callGraph EXCEPT !.methods[top.key] =
                            [@ EXCEPT !.MaxDepth = top.maxDepth,
                                      !.InDegree = inDegreeOf(callGraph,
                                          SortStrings(DOMAIN callGraph.methods), top.key)]]
                     /\ todo' = Tail(todo)
                     /\ pc' = "loop"
                ELSE /\ stack' = [rest EXCEPT ![Len(rest)] =
                                    [key |-> rest[Len(rest)].key, i |-> rest[Len(rest)].i + 1,
                                     maxDepth |-> Max(rest[Len(rest)].maxDepth, top.maxDepth + 1)]]
                     /\ UNCHANGED <<callGraph, todo, pc>>
    /\ UNCHANGED metricsFrame
    /\ UNCHANGED driverVars

NextDepth ==
    \/ CalculateMetricsEnter
    \/ LoopCall
    \/ LoopEnd
    \/ DepthCall
    \/ DepthReturn

\* the goroutine keeps running until CalculateMetrics returns
SpecDepth == InitDepth /\ [][NextDepth]_vars /\ WF_vars(NextDepth)

(***************************************************************************)
(* CallGraph and Sorter of the go/ast variant (pkg/sorter/callgraph.go and *)
(* the Sorter built by New).  The graph carries a flag panicked: a         *)
(* run-time panic was raised while it was built, and nothing after the     *)
(* panic is executed.  Go iterates over a map in an order that differs     *)
(* from run to run: every loop over cg.methods takes its keys in an order  *)
(* that is an input of the operator.                                       *)
(***************************************************************************)
\* decl.Pos(): the place of the declaration in the source text
Pos(decl) == decl.id

extractMethodInfoAst(decl) == extractMethodInfo(decl, Pos(decl))

NewCallGraphAst == [methods |-> EmptyMap, calls |-> EmptyMap, panicked |-> FALSE]

AddMethodAst(cg, method) ==
    LET key == methodKey(method.ReceiverName, method.Name)
    IN  [cg EXCEPT !.methods = MapPut(cg.methods, key, method),
                   !.calls = MapPut(cg.calls, key, MapGet(cg.calls, key))]

AddCallAst(cg, fromReceiver, fromMethod, toReceiver, toMethod) ==
    LET fromKey == methodKey(fromReceiver, fromMethod)
        toKey   == methodKey(toReceiver, toMethod)
        calls   == MapGet(cg.calls, fromKey)
    IN  IF toKey \in Range(calls)
          THEN [cg EXCEPT !.calls = MapPut(cg.calls, fromKey, calls)]
          ELSE [cg EXCEPT !.calls = MapPut(cg.calls, fromKey, Append(calls, toKey))]

\* callVisitor.Visit on one call expression x.sel(...): the third test slices
\* v.currentReceiver[0:1] without asking for its length, which panics on ""
VisitAst(cg, currentReceiver, currentMethod, call) ==
    IF cg.panicked THEN cg
    ELSE IF call.x = Self \/ call.x = currentReceiver
      THEN AddCallAst(cg, currentReceiver, currentMethod, currentReceiver, call.sel)
    ELSE IF Len(call.x) # 1 THEN cg
    ELSE IF Len(currentReceiver) < 1 THEN [cg EXCEPT !.panicked = TRUE]
    ELSE IF EqualFold1(call.x[1], currentReceiver[1])
      THEN AddCallAst(cg, currentReceiver, currentMethod, currentReceiver, call.sel)
    ELSE cg

\* ast.Walk(visitor, funcDecl.Body) on a body that is there
RECURSIVE WalkAst(_, _, _, _)
WalkAst(cg, currentReceiver, currentMethod, body) ==
    IF body = <<>> THEN cg
    ELSE WalkAst(VisitAst(cg, currentReceiver, currentMethod, Head(body)),
                 currentReceiver, currentMethod, Tail(body))

\* first loop of buildCallGraph
RECURSIVE collectMethodsAst(_, _)
collectMethodsAst(cg, ds) ==
    IF ds = <<>> THEN cg
    ELSE LET method == IF Head(ds).kind = "func" THEN extractMethodInfoAst(Head(ds)) ELSE Nil
         IN  IF method # Nil
               THEN collectMethodsAst(AddMethodAst(cg, method[1]), Tail(ds))
               ELSE collectMethodsAst(cg, Tail(ds))

\* second loop of buildCallGraph
RECURSIVE analyzeCallsAst(_, _)
analyzeCallsAst(cg, ds) ==
    IF ds = <<>> THEN cg
    ELSE LET method == IF Head(ds).kind = "func" THEN extractMethodInfoAst(Head(ds)) ELSE Nil
         IN  IF method # Nil
               THEN analyzeCallsAst(WalkAst(cg, method[1].ReceiverName, method[1].Name, Head(ds).body), Tail(ds))
               ELSE analyzeCallsAst(cg, Tail(ds))

\* the closure calculateDepth of CalculateMetrics: the visited map is handed
\* down (the deferred reset restores it on return), the maxDepth memo is
\* handed on; the result is the depth together with the memo
RECURSIVE calculateDepth(_, _, _, _)
RECURSIVE depthOverTargets(_, _, _, _, _)
calculateDepth(cg, method, visited, maxDepth) ==
    IF method \in visited THEN [depth |-> 0, maxDepth |-> maxDepth]
    ELSE IF method \in DOMAIN maxDepth THEN [depth |-> maxDepth[method], maxDepth |-> maxDepth]
    ELSE LET r == depthOverTargets(cg, MapGet(cg.calls, method), visited \cup {method}, maxDepth, 0)
         IN  [depth |-> r.depth, maxDepth |-> MapPut(r.maxDepth, method, r.depth)]

\* the loop over cg.calls[method] inside calculateDepth
depthOverTargets(cg, targets, visited, maxDepth, depth) ==
    IF targets = <<>> THEN [depth |-> depth, maxDepth |-> maxDepth]
    ELSE LET r == calculateDepth(cg, Head(targets), visited, maxDepth)
         IN  depthOverTargets(cg, Tail(targets), visited, r.maxDepth, Max(depth, r.depth + 1))

\* for key := range cg.methods { calculateDepth(key) }, keys taken in order
RECURSIVE depthsInOrder(_, _, _)
depthsInOrder(cg, order, maxDepth) ==
    IF order = <<>> THEN maxDepth
    ELSE depthsInOrder(cg, Tail(order), calculateDepth(cg, Head(order), {}, maxDepth).maxDepth)

\* CalculateMetrics when the loop over cg.methods takes the keys in order
CalculateMetricsAst(cg, order) ==
    LET maxDepth == depthsInOrder(cg, order, [x \in {} |-> 0])
        sources  == SortStrings(DOMAIN cg.calls)
    IN  [cg EXCEPT !.methods =
           [key \in DOMAIN cg.methods |->
              [cg.methods[key] EXCEPT !.InDegree = inDegreeOf(cg, sources, key),
                                      !.MaxDepth = maxDepth[key]]]]

\* the orders a loop over a map with key set S can take
MapOrders(S) == {f \in [1..Cardinality(S) -> S] : Injective(f)}

\* the graphs buildCallGraph can return for a file
buildCallGraphAst(ds) ==
    LET cg == analyzeCallsAst(collectMethodsAst(NewCallGraphAst, ds), ds)
    IN  IF cg.panicked THEN {cg}
        ELSE {CalculateMetricsAst(cg, order) : order \in MapOrders(DOMAIN cg.methods)}

\* the lists GetMethods can return
GetMethodsAst(cg) ==
    {[i \in 1..Len(order) |-> cg.methods[order[i]]] : order \in MapOrders(DOMAIN cg.methods)}

\* the Decls of the file reorderMethods returns
reorderMethodsAst(ds, sortedMethods) ==
    LET methodMap == {sortedMethods[i].FuncDecl : i \in 1..Len(sortedMethods)}
        keep(d)   == ~(d.kind = "func" /\ d.id \in methodMap)
        declOf(m) == CHOOSE d \in Range(ds) : d.id = m.FuncDecl
    IN  SelectSeq(ds, keep) \o [i \in 1..Len(sortedMethods) |-> declOf(sortedMethods[i])]

\* format.Node: the declarations in the order of file.Decls (where go/printer
\* puts the comments of file.Comments is not part of this text)
FormatNode(ds) ==
    [i \in 1..Len(ds) |-> [Text(ds[i]) EXCEPT !.doc = <<>>, !.inner = <<>>]]

AstPool ==
    {TypeDecl, FreeFunc, MethodADecl, MethodBDecl, StackResetDecl, ServeDecl, DialDecl}

\* parser.ParseFile and New
InitAst ==
    /\ \E n \in 0..MaxGraphDecls : \E src \in [1..n -> AstPool] : decls = Parse(src)
    /\ prevDecls = <<>>
    /\ callGraph = NewCallGraphAst
    /\ methods = <<>>
    /\ sorted = <<>>
    /\ changed = FALSE
    /\ content = NilContent
    /\ err = FALSE
    /\ runs = 0
    /\ history = <<>>
    /\ todo = <<>>
    /\ stack = <<>>
    /\ visitedKeys = {}
    /\ pc = "parsed"
    /\ NoDriver

\* Sorter.Sort of the go/ast variant; rendered tells whether format.Node
\* succeeds.  A panic in buildCallGraph ends the call without results.
SortAst(rendered) ==
    /\ pc = "parsed"
    /\ \E cg \in buildCallGraphAst(decls) :
         IF cg.panicked
           THEN /\ callGraph' = cg
                /\ pc' = "panic"
                /\ UNCHANGED <<methods, sorted, changed, history, content, err>>
           ELSE \E ms \in GetMethodsAst(cg) :
                \E sortedMethods \in {IF Len(ms) = 0 THEN <<>> ELSE sortMethods(ms)} :
                \E ch \in {IF Len(ms) = 0 THEN FALSE ELSE hasOrderChanged(ms, sortedMethods)} :
                \E newDecls \in {IF ch THEN reorderMethodsAst(decls, sortedMethods) ELSE decls} :
                    /\ callGraph' = cg
                    /\ methods' = ms
                    /\ sorted' = sortedMethods
                    /\ changed' = ch
                    /\ history' = Append(history, ch)
                    /\ content' = IF rendered THEN Bytes(FormatNode(newDecls)) ELSE NilContent
                    /\ err' = ~rendered
                    /\ pc' = "done"
    /\ prevDecls' = decls
    /\ runs' = runs + 1
    /\ UNCHANGED decls
    /\ UNCHANGED depthVars
    /\ UNCHANGED driverVars

NextAst == \E rendered \in BOOLEAN : SortAst(rendered)

SpecAst == InitAst /\ [][NextAst]_vars

(***************************************************************************)
(* The command (package cmd): Run, processPath, checkGoModule,             *)
(* processDirectory and processFile.  Paths and file names are Go strings. *)
(* The file system maps a path to what os.Stat finds there: a directory,   *)
(* or a file with its data.  The data of a file is either text that        *)
(* parser.ParseFile rejects, or the text of a list of declarations.        *)
(* An error is the chain of its wrappers, outermost first.                 *)
(***************************************************************************)
MaxPaths == 2       \* most paths on a command line

HasPrefix(s, prefix) == Len(s) >= Len(prefix) /\ SubSeq(s, 1, Len(prefix)) = prefix

HasSuffix(s, suffix) ==
    Len(s) >= Len(suffix) /\ SubSeq(s, Len(s) - Len(suffix) + 1, Len(s)) = suffix

\* "."
Dot == <<46>>
\* ".go"
GoSuffix == <<46, 103, 111>>
\* "_test.go"
TestSuffix == <<95, 116, 101, 115, 116, 46, 103, 111>>
\* "go.mod"
GoMod == <<103, 111, 46, 109, 111, 100>>

\* index of the last path separator of a path, 0 if it has none
LastSlash(path) ==
    LET S == {i \in 1..Len(path) : path[i] = 47}
    IN  IF S = {} THEN 0 ELSE CHOOSE i \in S : \A j \in S : j <= i

\* filepath.Join of a directory and a name
Join(dir, name) == IF dir = Dot THEN name ELSE dir \o <<47>> \o name

\* filepath.Dir of a relative path
Dir(path) == IF LastSlash(path) = 0 THEN Dot ELSE SubSeq(path, 1, LastSlash(path) - 1)

\* the last element of a path: the Name() of its directory entry
Base(path) == SubSeq(path, LastSlash(path) + 1, Len(path))

\* os.ReadDir: the names in a directory, sorted by file name
ReadDir(fsys, dir) ==
    SortStrings({Base(p) : p \in {q \in DOMAIN fsys : q # dir /\ Dir(q) = dir}})

\* checkGoModule: TRUE when it returns nil
RECURSIVE checkGoModule(_, _)
checkGoModule(fsys, current) ==
    IF Join(current, GoMod) \in DOMAIN fsys THEN TRUE
    ELSE IF Dir(current) = current THEN FALSE
    ELSE checkGoModule(fsys, Dir(current))

\* fmt.Errorf("<op> %s: %w", path, e)
Wrap(op, path, e) == <<[op |-> op, path |-> path]>> \o e

\* the results Sorter.Sort of the go/ast variant can have on a parsed file;
\* rendered tells whether format.Node succeeds
SorterSort(ds, rendered) ==
    UNION {IF cg.panicked
             THEN {[panic |-> TRUE, content |-> NilContent, changed |-> FALSE, err |-> FALSE]}
             ELSE {LET sortedMethods == IF Len(ms) = 0 THEN <<>> ELSE sortMethods(ms)
                       ch == IF Len(ms) = 0 THEN FALSE ELSE hasOrderChanged(ms, sortedMethods)
                       newDecls == IF ch THEN reorderMethodsAst(ds, sortedMethods) ELSE ds
                   IN  [panic |-> FALSE,
                        content |-> IF rendered THEN Bytes(FormatNode(newDecls)) ELSE NilContent,
                        changed |-> ch,
                        err |-> ~rendered]
                   : ms \in GetMethodsAst(cg)}
           : cg \in buildCallGraphAst(ds)}

\* what os.WriteFile leaves of a file it failed to write: the file as it
\* was, or the file truncated
Truncated == [ok |-> FALSE, src |-> <<>>]

\* processFile that goes on after an error of Sort
processFile_IgnoreSortError(fsys, filename, cfg, rendered, writable) ==
    LET data == fsys[filename].data
        noSort == [sorted |-> FALSE, content |-> NilContent, changed |-> FALSE, sortErr |-> FALSE]
    IN  IF ~data.ok
          THEN {[fs |-> fsys, err |-> Wrap("parsing", filename, <<[op |-> "parse", path |-> filename]>>),
                 wrote |-> FALSE, panic |-> FALSE] @@ noSort}
          ELSE UNION {
            LET res == [sorted |-> TRUE, content |-> r.content, changed |-> r.changed,
                        sortErr |-> r.err]
            IN  IF r.panic
                  THEN {[fs |-> fsys, err |-> NoError, wrote |-> FALSE, panic |-> TRUE] @@ noSort}
                ELSE IF ~r.changed
                  THEN {[fs |-> fsys, err |-> NoError, wrote |-> FALSE, panic |-> FALSE] @@ res}
                ELSE IF cfg.DryRun
                  THEN {[fs |-> fsys, err |-> NoError, wrote |-> FALSE, panic |-> FALSE] @@ res}
                ELSE IF writable
                  THEN {[fs |-> [fsys EXCEPT ![filename].data = [ok |-> TRUE, src |-> r.content.text]],
                         err |-> NoError, wrote |-> TRUE, panic |-> FALSE] @@ res}
                ELSE {[fs |-> [fsys EXCEPT ![filename].data = d],
                       err |-> Wrap("writing sorted file", filename, <<[op |-> "write", path |-> filename]>>),
                       wrote |-> TRUE, panic |-> FALSE] @@ res : d \in {data, Truncated}}
            : r \in SorterSort(Parse(data.src), rendered)}

\* processFile that writes whenever the order changed
processFile_IgnoreDryRun(fsys, filename, cfg, rendered, writable) ==
    LET data == fsys[filename].data
        noSort == [sorted |-> FALSE, content |-> NilContent, changed |-> FALSE, sortErr |-> FALSE]
    IN  IF ~data.ok
          THEN {[fs |-> fsys, err |-> Wrap("parsing", filename, <<[op |-> "parse", path |-> filename]>>),
                 wrote |-> FALSE, panic |-> FALSE] @@ noSort}
          ELSE UNION {
            LET res == [sorted |-> TRUE, content |-> r.content, changed |-> r.changed,
                        sortErr |-> r.err]
            IN  IF r.panic
                  THEN {[fs |-> fsys, err |-> NoError, wrote |-> FALSE, panic |-> TRUE] @@ noSort}
                ELSE IF r.err
                  THEN {[fs |-> fsys,
                         err |-> Wrap("sorting methods in", filename, <<[op |-> "format", path |-> filename]>>),
                         wrote |-> FALSE, panic |-> FALSE] @@ res}
                ELSE IF ~r.changed
                  THEN {[fs |-> fsys, err |-> NoError, wrote |-> FALSE, panic |-> FALSE] @@ res}
                ELSE IF writable
                  THEN {[fs |-> [fsys EXCEPT ![filename].data = [ok |-> TRUE, src |-> r.content.text]],
                         err |-> NoError, wrote |-> TRUE, panic |-> FALSE] @@ res}
                ELSE {[fs |-> [fsys EXCEPT ![filename].data = d],
                       err |-> Wrap("writing sorted file", filename, <<[op |-> "write", path |-> filename]>>),
                       wrote |-> TRUE, panic |-> FALSE] @@ res : d \in {data, Truncated}}
            : r \in SorterSort(Parse(data.src), rendered)}

\* processFile: the outcomes one call can have.  rendered tells whether
\* format.Node succeeds, writable whether os.WriteFile does.  An outcome
\* holds the file system after the call, the error returned, whether
\* WriteFile was called, whether Sort was called and what it returned, and
\* whether the call ended in a panic.
processFile(fsys, filename, cfg, rendered, writable) ==
    LET data == fsys[filename].data
        noSort == [sorted |-> FALSE, content |-> NilContent, changed |-> FALSE, sortErr |-> FALSE]
    IN  IF ~data.ok
          THEN {[fs |-> fsys, err |-> Wrap("parsing", filename, <<[op |-> "parse", path |-> filename]>>),
                 wrote |-> FALSE, panic |-> FALSE] @@ noSort}
          ELSE UNION {
            LET res == [sorted |-> TRUE, content |-> r.content, changed |-> r.changed,
                        sortErr |-> r.err]
            IN  IF r.panic
                  THEN {[fs |-> fsys, err |-> NoError, wrote |-> FALSE, panic |-> TRUE] @@ noSort}
                ELSE IF r.err
                  THEN {[fs |-> fsys,
                         err |-> Wrap("sorting methods in", filename, <<[op |-> "format", path |-> filename]>>),
                         wrote |-> FALSE, panic |-> FALSE] @@ res}
                ELSE IF ~r.changed
                  THEN {[fs |-> fsys, err |-> NoError, wrote |-> FALSE, panic |-> FALSE] @@ res}
                ELSE IF cfg.DryRun
                  THEN {[fs |-> fsys, err |-> NoError, wrote |-> FALSE, panic |-> FALSE] @@ res}
                ELSE IF writable
                  THEN {[fs |-> [fsys EXCEPT ![filename].data = [ok |-> TRUE, src |-> r.content.text]],
                         err |-> NoError, wrote |-> TRUE, panic |-> FALSE] @@ res}
                ELSE {[fs |-> [fsys EXCEPT ![filename].data = d],
                       err |-> Wrap("writing sorted file", filename, <<[op |-> "write", path |-> filename]>>),
                       wrote |-> TRUE, panic |-> FALSE] @@ res : d \in {data, Truncated}}
            : r \in SorterSort(Parse(data.src), rendered)}

\* the test of processPath and processDirectory on a file name
IsSourceFile(name) == HasSuffix(name, GoSuffix) /\ ~HasSuffix(name, TestSuffix)

\* the names used in the file systems
ModuleDir == <<109>>                                     \* "m"
HiddenDir == <<46, 104>>                                 \* ".h"
PkgDir == <<112>>                                        \* "p"
AGo == <<97, 46, 103, 111>>                              \* "a.go"
BTestGo == <<98, 95, 116, 101, 115, 116, 46, 103, 111>>  \* "b_test.go"
HGo == <<104, 46, 103, 111>>                             \* "h.go"
QGo == <<113, 46, 103, 111>>                             \* "q.go"
MissingGo == <<120, 46, 103, 111>>                       \* "x.go", which does not exist

\* package test; func (s *Server invalid syntax here
InvalidFile == [ok |-> FALSE, src |-> <<>>]

SourceFile(ds) == [ok |-> TRUE, src |-> Fprint(ds)]

\* type Server struct{}; func NotAMethod() {}
PlainFile == SourceFile(<<TypeDecl, FreeFunc>>)

\* type Server struct{}; func (s *Server) helper() {}; func (s *Server) Stop() error { return nil }
UnsortedFile == SourceFile(<<TypeDecl, HelperDecl, StopDecl>>)

\* func (s *Stack[T]) reset() { s.clear() }
GenericFile == SourceFile(<<StackResetDecl>>)

DirNode == [isDir |-> TRUE, data |-> InvalidFile]

FileNode(data) == [isDir |-> FALSE, data |-> data]

\* the file systems: m/.h/h.go, m/a.go, m/b_test.go, m/p/q.go, and m/go.mod
\* or not
FileSystems ==
    {LET tree == (Join(ModuleDir, AGo) :> FileNode(a))
              @@ (Join(Join(ModuleDir, PkgDir), QGo) :> FileNode(q))
              @@ (ModuleDir :> DirNode)
              @@ (Join(ModuleDir, HiddenDir) :> DirNode)
              @@ (Join(Join(ModuleDir, HiddenDir), HGo) :> FileNode(UnsortedFile))
              @@ (Join(ModuleDir, BTestGo) :> FileNode(UnsortedFile))
              @@ (Join(ModuleDir, PkgDir) :> DirNode)
     IN  IF mod THEN tree @@ (Join(ModuleDir, GoMod) :> FileNode(InvalidFile)) ELSE tree
     : a \in {InvalidFile, PlainFile, UnsortedFile, GenericFile},
       q \in {InvalidFile, UnsortedFile},
       mod \in BOOLEAN}

\* the paths a command line is made of
PathPool ==
    {ModuleDir, Join(ModuleDir, AGo), Join(ModuleDir, BTestGo), Join(ModuleDir, GoMod),
     Join(ModuleDir, HiddenDir), Join(Join(ModuleDir, HiddenDir), HGo), MissingGo}

\* Run is entered
InitRun ==
    /\ fs \in FileSystems
    /\ \E n \in 0..MaxPaths : \E paths \in [1..n -> PathPool] : \E dry \in BOOLEAN :
          config = [DryRun |-> dry, Paths |-> paths]
    /\ pathIndex = 1
    /\ dirStack = <<>>
    /\ parsedFiles = <<>>
    /\ writtenFiles = <<>>
    /\ runErr = NoError
    /\ buf = <<>>
    /\ decls = <<>>
    /\ prevDecls = <<>>
    /\ callGraph = NewCallGraphAst
    /\ methods = <<>>
    /\ sorted = <<>>
    /\ changed = FALSE
    /\ content = NilContent
    /\ err = FALSE
    /\ runs = 0
    /\ history = <<>>
    /\ todo = <<>>
    /\ stack = <<>>
    /\ visitedKeys = {}
    /\ pc = "run"

sorterFrame == <<decls, prevDecls, callGraph, methods, sorted, history, todo, stack, visitedKeys, buf>>

\* CallProcessFile whose caller goes on after an error
CallProcessFile_IgnoreError(filename, o, cont) ==
    /\ parsedFiles' = Append(parsedFiles, filename)
    /\ writtenFiles' = IF o.wrote THEN Append(writtenFiles, filename) ELSE writtenFiles
    /\ fs' = o.fs
    /\ IF o.sorted
         THEN /\ content' = o.content
              /\ changed' = o.changed
              /\ err' = o.sortErr
              /\ runs' = runs + 1
         ELSE UNCHANGED <<content, changed, err, runs>>
    /\ IF o.panic
         THEN /\ pc' = "panic"
              /\ UNCHANGED <<pathIndex, dirStack, runErr>>
         ELSE /\ cont
              /\ UNCHANGED runErr

\* the call processFile(filename, config) with outcome o, made while Run
\* processes config.Paths[pathIndex]; cont is what the caller does when the
\* call returns nil.  An error goes up to Run, which wraps it and returns.
CallProcessFile(filename, o, cont) ==
    /\ parsedFiles' = Append(parsedFiles, filename)
    /\ writtenFiles' = IF o.wrote THEN Append(writtenFiles, filename) ELSE writtenFiles
    /\ fs' = o.fs
    /\ IF o.sorted
         THEN /\ content' = o.content
              /\ changed' = o.changed
              /\ err' = o.sortErr
              /\ runs' = runs + 1
         ELSE UNCHANGED <<content, changed, err, runs>>
    /\ IF o.panic
         THEN /\ pc' = "panic"
              /\ UNCHANGED <<pathIndex, dirStack, runErr>>
         ELSE IF o.err # NoError
         THEN /\ runErr' = Wrap("processing", config.Paths[pathIndex], o.err)
              /\ dirStack' = <<>>
              /\ pc' = "returned"
              /\ UNCHANGED pathIndex
         ELSE /\ cont
              /\ UNCHANGED runErr

\* the call processDirectory(dir, config) up to its loop; readable tells
\* whether os.ReadDir succeeds
CallProcessDirectory(dir, readable, callerStack) ==
    IF readable
      THEN /\ dirStack' = Append(callerStack, [dir |-> dir, entries |-> ReadDir(fs, dir), i |-> 1])
           /\ pc' = "dir"
           /\ UNCHANGED <<pathIndex, runErr>>
      ELSE /\ runErr' = Wrap("processing", config.Paths[pathIndex], <<[op |-> "readdir", path |-> dir]>>)
           /\ dirStack' = <<>>
           /\ pc' = "returned"
           /\ UNCHANGED pathIndex

\* one turn of the loop of Run: processPath(path, config), up to the loop of
\* processDirectory when the path is a directory
ProcessPath(rendered, writable, readable) ==
    /\ pc = "run"
    /\ pathIndex <= Len(config.Paths)
    /\ LET path == config.Paths[pathIndex]
       IN  IF path \notin DOMAIN fs
             THEN /\ runErr' = Wrap("processing", path, <<[op |-> "stat", path |-> path]>>)
                  /\ pc' = "returned"
                  /\ UNCHANGED <<fs, pathIndex, dirStack, parsedFiles, writtenFiles,
                                 content, changed, err, runs>>
           ELSE IF fs[path].isDir
             THEN /\ IF ~checkGoModule(fs, path)
                       THEN /\ runErr' = Wrap("processing", path, <<[op |-> "go.mod file not found", path |-> path]>>)
                            /\ pc' = "returned"
                            /\ UNCHANGED <<pathIndex, dirStack>>
                       ELSE CallProcessDirectory(path, readable, <<>>)
                  /\ UNCHANGED <<fs, parsedFiles, writtenFiles, content, changed, err, runs>>
           ELSE IF IsSourceFile(path)
             THEN \E o \in processFile(fs, path, config, rendered, writable) :
                     CallProcessFile(path, o,
                        /\ pathIndex' = pathIndex + 1
                        /\ UNCHANGED <<dirStack, pc>>)
           ELSE /\ pathIndex' = pathIndex + 1
                /\ UNCHANGED <<fs, dirStack, parsedFiles, writtenFiles, runErr,
                               content, changed, err, runs, pc>>
    /\ UNCHANGED config
    /\ UNCHANGED sorterFrame

\* DirEntry that walks into hidden directories too
DirEntry_EnterHidden(rendered, writable, readable) ==
    /\ pc = "dir"
    /\ LET top == dirStack[Len(dirStack)]
           advanced == [dirStack EXCEPT ![Len(dirStack)].i = top.i + 1]
       IN  /\ top.i <= Len(top.entries)
           /\ LET name == top.entries[top.i]
                  path == Join(top.dir, name)
              IN  IF fs[path].isDir
                    THEN /\ CallProcessDirectory(path, readable, advanced)
                         /\ UNCHANGED <<fs, parsedFiles, writtenFiles, content, changed, err, runs>>
                  ELSE IF IsSourceFile(name)
                    THEN \E o \in processFile(fs, path, config, rendered, writable) :
                            CallProcessFile(path, o,
                               /\ dirStack' = advanced
                               /\ UNCHANGED <<pathIndex, pc>>)
                  ELSE /\ dirStack' = advanced
                       /\ UNCHANGED <<fs, pathIndex, parsedFiles, writtenFiles, runErr,
                                      content, changed, err, runs, pc>>
    /\ UNCHANGED config
    /\ UNCHANGED sorterFrame

\* one turn of the loop of the innermost processDirectory
DirEntry(rendered, writable, readable) ==
    /\ pc = "dir"
    /\ LET top == dirStack[Len(dirStack)]
           advanced == [dirStack EXCEPT ![Len(dirStack)].i = top.i + 1]
       IN  /\ top.i <= Len(top.entries)
           /\ LET name == top.entries[top.i]
                  path == Join(top.dir, name)
              IN  IF fs[path].isDir
                    THEN /\ IF ~HasPrefix(name, Dot)
                              THEN CallProcessDirectory(path, readable, advanced)
                              ELSE /\ dirStack' = advanced
                                   /\ UNCHANGED <<pathIndex, runErr, pc>>
                         /\ UNCHANGED <<fs, parsedFiles, writtenFiles, content, changed, err, runs>>
                  ELSE IF IsSourceFile(name)
                    THEN \E o \in processFile(fs, path, config, rendered, writable) :
                            CallProcessFile(path, o,
                               /\ dirStack' = advanced
                               /\ UNCHANGED <<pathIndex, pc>>)
                  ELSE /\ dirStack' = advanced
                       /\ UNCHANGED <<fs, pathIndex, parsedFiles, writtenFiles, runErr,
                                      content, changed, err, runs, pc>>
    /\ UNCHANGED config
    /\ UNCHANGED sorterFrame

\* the innermost processDirectory has handled all its entries and returns
\* nil, to the processDirectory that called it or through processPath to Run
DirReturn ==
    /\ pc = "dir"
    /\ LET top == dirStack[Len(dirStack)]
       IN  /\ top.i > Len(top.entries)
           /\ dirStack' = SubSeq(dirStack, 1, Len(dirStack) - 1)
           /\ IF Len(dirStack) = 1
                THEN /\ pathIndex' = pathIndex + 1
                     /\ pc' = "run"
                ELSE UNCHANGED <<pathIndex, pc>>
    /\ UNCHANGED <<fs, config, parsedFiles, writtenFiles, runErr, content, changed, err, runs>>
    /\ UNCHANGED sorterFrame

\* the loop of Run is over: Run returns nil
RunReturn ==
    /\ pc = "run"
    /\ pathIndex > Len(config.Paths)
    /\ pc' = "returned"
    /\ UNCHANGED <<fs, config, pathIndex, dirStack, parsedFiles, writtenFiles, runErr,
                   content, changed, err, runs>>
    /\ UNCHANGED sorterFrame

NextRun ==
    \/ \E rendered, writable, readable \in BOOLEAN : ProcessPath(rendered, writable, readable)
    \/ \E rendered, writable, readable \in BOOLEAN : DirEntry(rendered, writable, readable)
    \/ DirReturn
    \/ RunReturn

SpecRun == InitRun /\ [][NextRun]_vars

(***************************************************************************)
(* formatFile of the go/ast variant.  A text is a Go string; format.Node   *)
(* writes the package clause and the declarations, a declaration on a new  *)
(* line or after one blank line.                                           *)
(***************************************************************************)
MaxTextDecls == 3   \* most declarations in a rendered text

\* strings.TrimSpace on a line of ASCII text
TrimSpace(s) ==
    LET N == {i \in 1..Len(s) : s[i] \notin {9, 10, 11, 12, 13, 32}}
    IN  IF N = {} THEN <<>>
        ELSE SubSeq(s, CHOOSE i \in N : \A j \in N : i <= j,
                       CHOOSE i \in N : \A j \in N : j <= i)

\* strings.Split(content, "\n")
RECURSIVE Split(_)
Split(s) ==
    LET S == {i \in 1..Len(s) : s[i] = 10}
    IN  IF S = {} THEN <<s>>
        ELSE LET i == CHOOSE k \in S : \A j \in S : k <= j
             IN  <<SubSeq(s, 1, i - 1)>> \o Split(SubSeq(s, i + 1, Len(s)))

\* strings.Join(result, "\n")
RECURSIVE JoinLines(_)
JoinLines(ls) ==
    IF ls = <<>> THEN <<>>
    ELSE IF Len(ls) = 1 THEN ls[1]
    ELSE ls[1] \o <<10>> \o JoinLines(Tail(ls))

\* the loop of ensureBlankLinesBetweenMethods, from line i on
RECURSIVE blankLinesLoop(_, _, _)
blankLinesLoop(lines, i, result) ==
    IF i > Len(lines) THEN result
    ELSE LET appended == Append(result, lines[i])
         IN  IF /\ i < Len(lines)
                /\ TrimSpace(lines[i]) = <<125>>
                /\ HasPrefix(TrimSpace(lines[i + 1]), <<102, 117, 110, 99, 32>>)
               THEN blankLinesLoop(lines, i + 1, Append(appended, <<>>))
               ELSE blankLinesLoop(lines, i + 1, appended)

ensureBlankLinesBetweenMethods(text) == JoinLines(blankLinesLoop(Split(text), 1, <<>>))

\* package test
PackageClause == <<112, 97, 99, 107, 97, 103, 101, 32, 116, 101, 115, 116>>

\* type Server struct{}
TypeText ==
    [tok |-> "type", doc |-> FALSE,
     lines |-> <<<<116, 121, 112, 101, 32, 83, 101, 114, 118, 101, 114, 32, 115, 116, 114, 117, 99, 116, 123, 125>>>>]

\* func (s *Server) Start() error { s.helper(); return nil }, on several lines
MethodText ==
    [tok |-> "func", doc |-> FALSE,
     lines |-> <<<<102, 117, 110, 99, 32, 40, 115, 32, 42, 83, 101, 114, 118, 101, 114, 41, 32, 83, 116, 97, 114, 116, 40, 41, 32, 101, 114, 114, 111, 114, 32, 123>>,
                <<9, 115, 46, 104, 101, 108, 112, 101, 114, 40, 41>>,
                <<9, 114, 101, 116, 117, 114, 110, 32, 110, 105, 108>>,
                <<125>>>>]

\* func (s *Server) helper() {}
OneLineText ==
    [tok |-> "func", doc |-> FALSE,
     lines |-> <<<<102, 117, 110, 99, 32, 40, 115, 32, 42, 83, 101, 114, 118, 101, 114, 41, 32, 104, 101, 108, 112, 101, 114, 40, 41, 32, 123, 125>>>>]

\* // Stop stops the server; func (s *Server) Stop() {}, on two more lines
DocMethodText ==
    [tok |-> "func", doc |-> TRUE,
     lines |-> <<<<47, 47, 32, 83, 116, 111, 112, 32, 115, 116, 111, 112, 115, 32, 116, 104, 101, 32, 115, 101, 114, 118, 101, 114>>,
                <<102, 117, 110, 99, 32, 40, 115, 32, 42, 83, 101, 114, 118, 101, 114, 41, 32, 83, 116, 111, 112, 40, 41, 32, 123>>,
                <<125>>>>]

\* the lines of the declarations ds, each after gaps[i] blank lines
RECURSIVE DeclLines(_, _)
DeclLines(ds, gaps) ==
    IF ds = <<>> THEN <<>>
    ELSE (IF Head(gaps) = 1 THEN <<<<>>>> ELSE <<>>) \o Head(ds).lines
            \o DeclLines(Tail(ds), Tail(gaps))

\* the texts format.Node can write: a declaration stands one blank line
\* after what is before it when it is the first, when its token differs
\* from that of the declaration before it or when it has a doc comment, and
\* else on the next line or one blank line after it
RenderedTexts ==
    LET pool == {TypeText, MethodText, OneLineText, DocMethodText}
        gapOk(ds, gaps) ==
            \A i \in 1..Len(ds) :
                (i = 1 \/ ds[i - 1].tok # ds[i].tok \/ ds[i].doc) => gaps[i] = 1
    IN  UNION {{JoinLines(<<PackageClause>> \o DeclLines(ds, gaps)) \o <<10>> :
                   gaps \in {g \in [1..Len(ds) -> {0, 1}] : gapOk(ds, g)}}
               : ds \in UNION {[1..n -> pool] : n \in 0..MaxTextDecls}}

\* format.Node has written the text of a file
InitFormat ==
    /\ buf \in RenderedTexts
    /\ fs = <<>>
    /\ config = [DryRun |-> FALSE, Paths |-> <<>>]
    /\ pathIndex = 0
    /\ dirStack = <<>>
    /\ parsedFiles = <<>>
    /\ writtenFiles = <<>>
    /\ runErr = NoError
    /\ decls = <<>>
    /\ prevDecls = <<>>
    /\ callGraph = NewCallGraphAst
    /\ methods = <<>>
    /\ sorted = <<>>
    /\ changed = FALSE
    /\ content = NilContent
    /\ err = FALSE
    /\ runs = 0
    /\ history = <<>>
    /\ todo = <<>>
    /\ stack = <<>>
    /\ visitedKeys = {}
    /\ pc = "rendered"

\* formatFile; rendered tells whether format.Node succeeds
formatFile(rendered) ==
    /\ pc = "rendered"
    /\ IF rendered
         THEN /\ content' = Bytes(ensureBlankLinesBetweenMethods(buf))
              /\ err' = FALSE
         ELSE /\ content' = NilContent
              /\ err' = TRUE
    /\ pc' = "formatted"
    /\ UNCHANGED <<decls, prevDecls, callGraph, methods, sorted, changed, runs, history>>
    /\ UNCHANGED depthVars
    /\ UNCHANGED driverVars

NextFormat == \E rendered \in BOOLEAN : formatFile(rendered)

SpecFormat == InitFormat /\ [][NextFormat]_vars

(***************************************************************************)
(* Properties                                                              *)
(***************************************************************************)
\* a stands before b in the list
Earlier(list, a, b) ==
    \E i, j \in 1..Len(list) : i < j /\ list[i] = a /\ list[j] = b

SameGroup(a, b) == a.ReceiverName = b.ReceiverName

\* C1: in the list sortMethods returns, of two methods of the input with the
\* same ReceiverName the exported one stands before the unexported one,
\* whatever their MaxDepth, InDegree and Position are.
C1_ExportedFirst ==
    pc = "sorted" =>
        \A a, b \in Range(methods) :
            (SameGroup(a, b) /\ a.IsExported /\ ~b.IsExported) => Earlier(sorted, a, b)

\* C1 witness: an unexported method that came first in the input and has the
\* lower MaxDepth and the lower Position, and a different InDegree, ends up
\* behind the exported method of its receiver.
C1_Witness ==
    /\ pc = "sorted"
    /\ \E a, b \in Range(methods) :
        /\ SameGroup(a, b) /\ a.IsExported /\ ~b.IsExported
        /\ b.MaxDepth < a.MaxDepth /\ b.InDegree # a.InDegree /\ b.Position < a.Position
        /\ Earlier(methods, b, a)
        /\ Earlier(sorted, a, b)

\* C3: in the list sortMethods returns, of two methods with the same
\* ReceiverName and the same visibility the one with the strictly lower
\* MaxDepth stands first, whatever their InDegree and Position are.
C3_LowerDepthFirst ==
    pc = "sorted" =>
        \A a, b \in Range(methods) :
            (SameGroup(a, b) /\ a.IsExported = b.IsExported /\ a.MaxDepth < b.MaxDepth)
                => Earlier(sorted, a, b)

\* C3 witness: the deeper method came first in the input, with the lower
\* Position and the higher InDegree, and ends up behind the shallower one.
C3_Witness ==
    /\ pc = "sorted"
    /\ \E a, b \in Range(methods) :
        /\ SameGroup(a, b) /\ a.IsExported = b.IsExported /\ a.MaxDepth < b.MaxDepth
        /\ b.InDegree > a.InDegree /\ b.Position < a.Position
        /\ Earlier(methods, b, a)
        /\ Earlier(sorted, a, b)

\* C4 as the documentation states it: of two methods with the same
\* ReceiverName, visibility and MaxDepth, the one with the strictly lower
\* InDegree stands first in the list sortMethods returns.
C4_LowerInDegreeFirst ==
    pc = "sorted" =>
        \A a, b \in Range(methods) :
            (/\ SameGroup(a, b) /\ a.IsExported = b.IsExported
             /\ a.MaxDepth = b.MaxDepth /\ a.InDegree < b.InDegree)
                => Earlier(sorted, a, b)

\* C5: in the list sortMethods returns, two methods equal in ReceiverName,
\* visibility, MaxDepth and InDegree stand in the order of their Position,
\* for every order of the input.
C5_TiesByPosition ==
    pc = "sorted" =>
        \A a, b \in Range(methods) :
            (/\ SameGroup(a, b) /\ a.IsExported = b.IsExported
             /\ a.MaxDepth = b.MaxDepth /\ a.InDegree = b.InDegree
             /\ a.Position < b.Position)
                => Earlier(sorted, a, b)

\* C5 witness: two tied methods came in the input against their Position
\* order and are put back into it.
C5_Witness ==
    /\ pc = "sorted"
    /\ \E a, b \in Range(methods) :
        /\ SameGroup(a, b) /\ a.IsExported = b.IsExported
        /\ a.MaxDepth = b.MaxDepth /\ a.InDegree = b.InDegree
        /\ a.Position < b.Position
        /\ Earlier(methods, b, a)
        /\ Earlier(sorted, a, b)

\* the declaration of the file, as Sort found it, that a method record points to
DeclOf(m) == CHOOSE d \in Range(prevDecls) : d.id = m.FuncDecl

\* a function declaration with a receiver
IsMethodDecl(d) == d.kind = "func" /\ d.recvShape # "none"

\* the texts of the method declarations of a file, in file order
MethodTexts(ds) == Fprint(SelectSeq(ds, IsMethodDecl))

\* C2: in the list sortMethods returns, a method whose receiver type name
\* (the identifier of the receiver type, under the pointer if there is one)
\* is smaller in byte order stands before every method with a greater one,
\* whatever the other keys are; so each receiver type's methods are contiguous.
C2_ReceiverAscending ==
    pc = "done" =>
        /\ \A i, j \in 1..Len(sorted) :
              StrCompare(DeclOf(sorted[i]).recvType, DeclOf(sorted[j]).recvType) < 0 => i < j
        /\ \A i, j, k \in 1..Len(sorted) :
              (i < j /\ j < k /\ DeclOf(sorted[i]).recvType = DeclOf(sorted[k]).recvType)
                  => DeclOf(sorted[j]).recvType = DeclOf(sorted[i]).recvType

\* C2 witness: an unexported, deeper method of Client, declared last, is put
\* before an exported leaf method on *Server and a method on Server.
C2_Witness ==
    /\ pc = "done"
    /\ \E a, b, c \in Range(sorted) :
        /\ DeclOf(a).recvShape = "star" /\ DeclOf(a).recvType = Server
        /\ DeclOf(b).recvShape = "ident" /\ DeclOf(b).recvType = Server
        /\ DeclOf(c).recvType = Client
        /\ a.IsExported /\ ~c.IsExported /\ a.MaxDepth < c.MaxDepth
        /\ a.Position < c.Position /\ b.Position < c.Position
        /\ Earlier(sorted, c, a) /\ Earlier(sorted, c, b)

\* the README example: helper, Start, connect, Stop on *Server
ReadmeBefore == Fprint(<<HelperDecl, StartDecl, ConnectDecl, StopDecl>>)

ReadmeAfter == Fprint(<<StartDecl, StopDecl, ConnectDecl, HelperDecl>>)

\* C6 as the README states it: for the methods helper, Start, connect, Stop
\* declared in this order, Sort returns changed = true and the method order
\* Start, Stop, connect, helper.
C6_ReadmeExample ==
    (pc = "done" /\ runs = 1 /\ MethodTexts(prevDecls) = ReadmeBefore)
        => (changed /\ MethodTexts(decls) = ReadmeAfter)

\* no adjacent pair of the list is out of comparator order
InComparatorOrder(ms) ==
    \A i \in 1..(Len(ms) - 1) : ~shouldSwap(ms[i], ms[i + 1])

\* C7: a Sort on the text a previous Sort returned reports changed = false
\* and leaves the declaration order as it is; so does any Sort on a file
\* whose methods are in comparator order.
C7_Idempotent ==
    /\ (pc = "done" /\ runs >= 2) => (~changed /\ decls = prevDecls)
    /\ (pc = "done" /\ InComparatorOrder(methods)) => (~changed /\ decls = prevDecls)

\* C7 witness: the first Sort reordered a file with several methods, the
\* second Sort has run on its output.
C7_Witness ==
    /\ pc = "done" /\ runs = 2
    /\ history[1] = TRUE
    /\ Len(methods) >= 3
    /\ ~changed

\* number of places of a list that hold d
Occurrences(list, d) == Cardinality({i \in 1..Len(list) : list[i] = d})

\* C8: the declaration list after Sort is a permutation of the list before it:
\* every declaration node occurs as often as before.
C8_Permutation ==
    pc = "done" =>
        /\ Len(decls) = Len(prevDecls)
        /\ \A d \in Range(decls) \cup Range(prevDecls) :
              Occurrences(decls, d) = Occurrences(prevDecls, d)

\* C8 witness: Sort reordered a file in which two method declarations have
\* the same receiver and name.
C8_Witness ==
    /\ pc = "done" /\ changed /\ decls # prevDecls
    /\ \E d, e \in Range(prevDecls) :
        /\ d.id # e.id /\ IsMethodDecl(d) /\ IsMethodDecl(e)
        /\ d.recvType = e.recvType /\ d.name = e.name

\* the nodes of the methods Sort sorted, in the order the file declared them
SourceOrder ==
    LET tracked == {sorted[i].FuncDecl : i \in 1..Len(sorted)}
        isTracked(d) == d.id \in tracked
        ds == SelectSeq(prevDecls, isTracked)
    IN  [i \in 1..Len(ds) |-> ds[i].id]

SortedOrder == [i \in 1..Len(sorted) |-> sorted[i].FuncDecl]

\* C9: Sort returns changed = true exactly when the sorted method sequence
\* differs from the source-order sequence at some index, and with
\* changed = false the declaration list is as it was.
C9_ChangeDetection ==
    pc = "done" =>
        /\ changed <=> (SortedOrder # SourceOrder)
        /\ ~changed => decls = prevDecls

\* C9 witness: the two sequences agree at the first index and differ later,
\* and Sort reports the change.
C9_Witness ==
    /\ pc = "done" /\ changed
    /\ Len(sorted) >= 3
    /\ SortedOrder[1] = SourceOrder[1]
    /\ SortedOrder # SourceOrder

\* the keys of the methods whose body holds a call on the receiver to m
CallerKeys(m) ==
    {methodKey(d.recvType, d.name) :
        d \in {e \in Range(prevDecls) :
                 /\ IsMethodDecl(e) /\ e.hasBody /\ e.recvType = m.ReceiverName
                 /\ \E i \in 1..Len(e.body) :
                       e.body[i].x = e.recvIdent /\ e.body[i].sel = m.Name}}

\* C10 as the README states it: the InDegree of every method is the number
\* of distinct methods that call it; repeated calls from one caller count once.
C10_InDegreeDistinctCallers ==
    pc = "done" =>
        \A i \in 1..Len(methods) : methods[i].InDegree = Cardinality(CallerKeys(methods[i]))

\* the targets of the edges that leave key
Callees(cg, key) == Range(MapGet(cg.calls, key))

\* the number of edges of the longest path from key that visits no method
\* twice and none of visited
RECURSIVE LongestPath(_, _, _)
LongestPath(cg, key, visited) ==
    LET next == Callees(cg, key) \ (visited \cup {key})
        len(t) == 1 + LongestPath(cg, t, visited \cup {key})
    IN  IF next = {} THEN 0
        ELSE CHOOSE n \in {len(t) : t \in next} : \A o \in {len(t) : t \in next} : o <= n

\* C11 as the specification states it: after CalculateMetrics the MaxDepth of
\* every method is the number of edges of the longest path that starts at the
\* method and visits no method twice, also when the graph has cycles.
C11_MaxDepthLongestAcyclicPath ==
    pc = "done" =>
        \A key \in DOMAIN callGraph.methods :
            callGraph.methods[key].MaxDepth = LongestPath(callGraph, key, {})

\* how far CalculateMetrics has come: its phase, the number of keys its loop
\* is done with, and the index each active invocation has reached
Progress ==
    <<CASE pc = "built" -> 0 [] pc \in {"loop", "depth"} -> 1 [] OTHER -> 2,
      Cardinality(DOMAIN callGraph.methods) - Len(todo)>>
        \o [j \in 1..Len(stack) |-> stack[j].i]

\* a stands before b in the lexicographic order
RECURSIVE LexLess(_, _)
LexLess(a, b) ==
    IF b = <<>> THEN FALSE
    ELSE IF a = <<>> THEN TRUE
    ELSE IF Head(a) # Head(b) THEN Head(a) < Head(b)
    ELSE LexLess(Tail(a), Tail(b))

\* C12: on every call graph built from a file, with self-calls and mutual
\* recursion among them, CalculateMetrics returns: the stack never runs out,
\* until it has returned there is a step to take (in phase "depth" there is an
\* innermost invocation), every step moves Progress up in the lexicographic
\* order, and Progress has at most 2 + number of methods entries, each
\* bounded by the length of a call list.  When it has returned every method
\* has 0 <= MaxDepth <= number of methods and InDegree >= 0.
C12_CycleSafety ==
    /\ [][LexLess(Progress, Progress')]_vars
    /\ [](pc # "overflow" /\ (pc = "depth" => stack # <<>>))
    /\ [](/\ Len(stack) <= Cardinality(DOMAIN callGraph.methods)
          /\ Len(todo) <= Cardinality(DOMAIN callGraph.methods)
          /\ \A j \in 1..Len(stack) :
                stack[j].i \in 1..(Len(MapGet(callGraph.calls, stack[j].key)) + 1))
    /\ [](pc = "returned" =>
            \A key \in DOMAIN callGraph.methods :
                /\ 0 <= callGraph.methods[key].MaxDepth
                /\ callGraph.methods[key].MaxDepth <= Cardinality(DOMAIN callGraph.methods)
                /\ callGraph.methods[key].InDegree >= 0)

\* C12 witness: CalculateMetrics has returned on a graph with a method that
\* calls itself and two methods that call each other, and a method on the
\* 2-cycle has MaxDepth 2.
C12_Witness ==
    /\ pc = "returned"
    /\ \E k \in DOMAIN callGraph.methods : k \in Callees(callGraph, k)
    /\ \E a, b \in DOMAIN callGraph.methods :
          /\ a # b
          /\ b \in Callees(callGraph, a)
          /\ a \in Callees(callGraph, b)
          /\ callGraph.methods[a].MaxDepth = 2

\* C13 as the specification states it: the edges of a source form a set, so
\* in the graph a Sort has built no call list holds the same target twice.
C13_EdgeSet ==
    pc = "done" =>
        \A k \in DOMAIN callGraph.calls :
            \A i, j \in 1..Len(callGraph.calls[k]) :
                callGraph.calls[k][i] = callGraph.calls[k][j] => i = j

\* the receiver type name of a method declaration: the identifier of the
\* receiver type, under the pointer if there is one, else the empty string
TypeNameOf(d) == IF d.recvShape \in {"ident", "star"} THEN d.recvType ELSE <<>>

\* name is declared in the file as a method of the receiver type of d
DeclaredOnTypeOf(ds, d, name) ==
    \E e \in Range(ds) : IsMethodDecl(e) /\ TypeNameOf(e) = TypeNameOf(d) /\ e.name = name

C15_CallOnReceiverIsEdge ==
    pc = "done" =>
        \A d \in Range(prevDecls) :
            (IsMethodDecl(d) /\ d.hasBody) =>
                \A i \in 1..Len(d.body) :
                    (d.body[i].x = d.recvIdent /\ DeclaredOnTypeOf(prevDecls, d, d.body[i].sel))
                        => methodKey(TypeNameOf(d), d.body[i].sel)
                              \in Callees(callGraph, methodKey(TypeNameOf(d), d.name))

\* the method declarations of a file, in file order
MethodDecls(ds) == SelectSeq(ds, IsMethodDecl)

\* C16 as the specification states it: the list GetMethods returns has one
\* record for each function declaration with a receiver and no other record,
\* in the order of the declarations in the file, with strictly increasing
\* Position values.
C16_OneRecordPerMethodDecl ==
    pc = "done" =>
        /\ Len(methods) = Len(MethodDecls(prevDecls))
        /\ \A i \in 1..Len(methods) :
              i <= Len(MethodDecls(prevDecls)) => methods[i].FuncDecl = MethodDecls(prevDecls)[i].id
        /\ \A i, j \in 1..Len(methods) : i < j => methods[i].Position < methods[j].Position

\* the index of the declaration with identity id in a declaration list
IndexOf(ds, id) == CHOOSE i \in 1..Len(ds) : ds[i].id = id

\* a function declaration with a receiver whose type is neither an identifier
\* nor a pointer to one
Unclassifiable(d) == d.kind = "func" /\ d.recvShape = "other"

\* C17 as the specification states it: a function declaration whose receiver
\* type name cannot be extracted has no method record, and Sort leaves it
\* where it is among the declarations that are no methods.
C17_UnclassifiableNotTracked ==
    pc = "done" =>
        \A d \in Range(prevDecls) :
            Unclassifiable(d) =>
                /\ \A i \in 1..Len(methods) : methods[i].FuncDecl # d.id
                /\ \A e \in Range(prevDecls) :
                      (~IsMethodDecl(e) \/ Unclassifiable(e)) =>
                          (IndexOf(prevDecls, d.id) < IndexOf(prevDecls, e.id)
                              <=> IndexOf(decls, d.id) < IndexOf(decls, e.id))

\* a declaration that is no method: a type, constant or variable declaration
\* or a free function
NonMethodDecl(d) == ~IsMethodDecl(d)

\* the declarations the records of a method list point to, in list order
DeclsOf(ms) == [i \in 1..Len(ms) |-> DeclOf(ms[i])]

\* C18 as the specification states it: when Sort has reordered, the new
\* declaration list is the non-method declarations of the file in their
\* original order, followed by all its method declarations, in the order of
\* the sorted method list.
C18_NonMethodsThenSortedMethods ==
    (pc = "done" /\ changed) =>
        /\ decls = SelectSeq(prevDecls, NonMethodDecl) \o DeclsOf(sorted)
        /\ \A d \in Range(prevDecls) :
              IsMethodDecl(d) => \E i \in 1..Len(sorted) : sorted[i].FuncDecl = d.id

\* the comments of a declaration text
CommentsOf(t) == Range(t.doc) \cup Range(t.inner)

\* how often comment c occurs in a rendered file
RECURSIVE CommentCount(_, _)
CommentCount(texts, c) ==
    IF texts = <<>> THEN 0
    ELSE CountIn(Head(texts).doc, c) + CountIn(Head(texts).inner, c)
            + CommentCount(Tail(texts), c)

\* C19: when Sort has reordered and rendered the file, every declaration node
\* still carries the doc comment and the body comments it had, the rendered
\* text of the node is the text it had with these comments in place, and
\* every comment of the input occurs in the output as often as in the input.
C19_CommentsMoveWithMethod ==
    (pc = "done" /\ changed /\ ~content.nil) =>
        /\ Len(content.text) = Len(prevDecls)
        /\ \A d \in Range(prevDecls) :
              \E j \in 1..Len(decls) :
                  /\ decls[j].id = d.id
                  /\ decls[j].doc = d.doc
                  /\ decls[j].inner = d.inner
                  /\ content.text[j] = Text(d)
        /\ \A t \in Range(Fprint(prevDecls)) :
              \A c \in CommentsOf(t) :
                  CommentCount(content.text, c) = CommentCount(Fprint(prevDecls), c)

\* C19 witness: Close, with a doc comment and a comment in its body, stood
\* behind another declaration, was moved to the front, and is rendered there
\* with both comments.
C19_Witness ==
    /\ pc = "done" /\ changed /\ ~content.nil
    /\ Len(prevDecls) >= 2
    /\ prevDecls[Len(prevDecls)].name = Close
    /\ prevDecls[1].doc = <<>>
    /\ decls[1].id = prevDecls[Len(prevDecls)].id
    /\ content.text[1].doc = <<CloseDoc>>
    /\ content.text[1].inner = <<CloseInner>>

\* C20 as the specification states it: Sort of the go/ast variant does not
\* abort on any file, among them files without methods, files with a method
\* whose receiver type name is empty and whose body calls a method on a
\* one-letter identifier, and files with cyclic calls; it returns an error
\* only when rendering fails.
C20_AstSortNeverAborts ==
    /\ pc # "panic"
    /\ (pc = "done" /\ err) => content.nil

(***************************************************************************)
(* Properties of sortMethods and shouldSwap                                *)
(***************************************************************************)
\* the orders the places of a list of up to MaxMethods records can be put in
PlaceOrders == {f : f \in UNION {MapOrders(1..n) : n \in 0..MaxMethods}}

\* the pairs of places of ms for whose records shouldSwap holds
SwapPairs(ms) ==
    {p : p \in {q \in (1..Len(ms)) \X (1..Len(ms)) : shouldSwap(ms[q[1]], ms[q[2]])}}

\* C25: for a list with pairwise distinct Position values the result of
\* sortMethods is a permutation of the list (same length, every place of
\* the list taken once) in which no adjacent pair satisfies shouldSwap, and
\* it is the only permutation of the list with that property.
C25_SortMethodsOrdersByComparator ==
    pc = "sorted" =>
        \E R \in {SwapPairs(methods)} :
            /\ Len(sorted) = Len(methods)
            /\ \E f \in PlaceOrders :
                  /\ Len(f) = Len(methods)
                  /\ sorted = [i \in 1..Len(methods) |-> methods[f[i]]]
            /\ \A i \in 1..(Len(sorted) - 1) : ~shouldSwap(sorted[i], sorted[i + 1])
            /\ \A f \in PlaceOrders :
                  (/\ Len(f) = Len(methods)
                   /\ \A i \in 1..(Len(methods) - 1) : <<f[i], f[i + 1]>> \notin R)
                     => sorted = [i \in 1..Len(methods) |-> methods[f[i]]]

\* sortMethods has turned a list of three records around
C25_Witness ==
    /\ pc = "sorted"
    /\ Len(methods) = 3
    /\ sorted = <<methods[3], methods[2], methods[1]>>
    /\ methods[1].Position < methods[2].Position
    /\ methods[2].Position < methods[3].Position

(***************************************************************************)

\* C26: on the method records of a list with pairwise distinct Position
\* values (the records at two places are equal only if the places are)
\* shouldSwap is a strict total order: shouldSwap(a, a) is false,
\* shouldSwap(a, b) and shouldSwap(b, a) are never both true, for a # b one
\* of them is true, and shouldSwap(a, b) with shouldSwap(b, c) implies
\* shouldSwap(a, c).
C26_ShouldSwapStrictTotalOrder ==
    pc = "sorted" =>
        \E R \in {SwapPairs(methods)} :
            \A i, j \in 1..Len(methods) :
                /\ <<i, i>> \notin R
                /\ ~(<<i, j>> \in R /\ <<j, i>> \in R)
                /\ i # j => (<<i, j>> \in R \/ <<j, i>> \in R)
                /\ <<i, j>> \in R =>
                      \A k \in 1..Len(methods) : <<j, k>> \in R => <<i, k>> \in R

\* sortMethods has sorted three records of which the first goes after the
\* second by its receiver, and the second after the third, its equal in
\* every other key, by its position
C26_Witness ==
    /\ pc = "sorted"
    /\ Len(methods) = 3
    /\ shouldSwap(methods[1], methods[2])
    /\ shouldSwap(methods[2], methods[3])
    /\ methods[1].ReceiverName # methods[2].ReceiverName
    /\ [SortKey(methods[2]) EXCEPT !.OriginalPos = 0] = [SortKey(methods[3]) EXCEPT !.OriginalPos = 0]

(***************************************************************************)
(* Properties of the command                                               *)
(***************************************************************************)
\* the step is a call of processFile
ProcessFileStep == parsedFiles' # parsedFiles

\* the file processFile was called on in the step
ProcessedFile == parsedFiles'[Len(parsedFiles')]

\* Sort was called in the step and returned without error
SortSucceeded == runs' = runs + 1 /\ ~err'

\* C21: processFile calls WriteFile on its file if and only if Sort
\* succeeded with changed = true and DryRun is false, a write that succeeds
\* puts the content Sort returned into that file and touches no other path,
\* and when DryRun is set or Sort reports changed = false the file system
\* stays what it was.
C21_WriteIffChangedAndNotDryRun ==
    [][ProcessFileStep =>
         /\ (writtenFiles' # writtenFiles) <=> (SortSucceeded /\ changed' /\ ~config.DryRun)
         /\ writtenFiles' # writtenFiles =>
               /\ writtenFiles' = Append(writtenFiles, ProcessedFile)
               /\ \A p \in DOMAIN fs : p # ProcessedFile => fs'[p] = fs[p]
               /\ DOMAIN fs' = DOMAIN fs
               /\ pc' # "returned" =>
                     fs'[ProcessedFile] = FileNode([ok |-> TRUE, src |-> content'.text])
         /\ (config.DryRun \/ (SortSucceeded /\ ~changed')) => fs' = fs]_vars

\* a run without DryRun has sorted a file, written it, and returned nil
C21_Witness ==
    /\ pc = "returned"
    /\ runErr = NoError
    /\ ~config.DryRun
    /\ changed
    /\ writtenFiles # <<>>
    /\ \E p \in DOMAIN fs : fs[p].data = [ok |-> TRUE, src |-> FormatNode(<<TypeDecl, StopDecl, HelperDecl>>)]

\* C22: when the rendered output cannot be produced, Sort returns a non-nil
\* error with nil content, and the processFile that called it does not call
\* WriteFile, leaves the file system as it was, and returns that error
\* (wrapped with "sorting methods in" and the file name), which Run returns
\* wrapped with the path.
C22_RenderFailureNotWritten ==
    [][(ProcessFileStep /\ runs' = runs + 1 /\ err') =>
         /\ content' = NilContent
         /\ writtenFiles' = writtenFiles
         /\ fs' = fs
         /\ pc' = "returned"
         /\ runErr' = Wrap("processing", config.Paths[pathIndex],
                         Wrap("sorting methods in", ProcessedFile,
                              <<[op |-> "format", path |-> ProcessedFile]>>))]_vars

\* Run has returned the error of a Sort that could not render a file with
\* methods
C22_Witness ==
    /\ pc = "returned"
    /\ err
    /\ content = NilContent
    /\ Len(runErr) = 3
    /\ runErr[2].op = "sorting methods in"
    /\ fs[runErr[2].path].data = UnsortedFile

(***************************************************************************)
\* the directories a path lies below
RECURSIVE Ancestors(_)
Ancestors(path) ==
    IF LastSlash(path) = 0 THEN {} ELSE {Dir(path)} \cup Ancestors(Dir(path))

\* the file lies below a directory whose name starts with '.'
BelowHiddenDir(file) == \E d \in Ancestors(file) : HasPrefix(Base(d), Dot)

\* the file lies below a directory whose name starts with '.' and which is
\* itself below the path
BelowHiddenDirUnder(path, file) ==
    \E d \in Ancestors(file) :
        /\ HasPrefix(Base(d), Dot)
        /\ Len(d) > Len(path)
        /\ HasPrefix(d, path \o <<47>>)

\* the name ends in .go and not in _test.go
GoNotTest(name) == HasSuffix(name, GoSuffix) /\ ~HasSuffix(name, TestSuffix)

\* every given path is an existing file that is no Go source file or is a
\* test file
OnlySkippedFiles ==
    \A i \in 1..Len(config.Paths) :
        /\ config.Paths[i] \in DOMAIN fs
        /\ ~fs[config.Paths[i]].isDir
        /\ ~GoNotTest(config.Paths[i])

\* C24 as stated: Run never parses or writes a file whose name ends in
\* _test.go or does not end in .go, nor a file below a directory whose name
\* starts with '.', whether it is reached through a walk or given directly.
C24_NeverTouchesExcludedFiles ==
    \A i \in 1..Len(parsedFiles) :
        GoNotTest(parsedFiles[i]) /\ ~BelowHiddenDir(parsedFiles[i])

\* C24, amended: Run never parses or writes a file whose name ends in
\* _test.go or does not end in .go, however it is reached, and the walk of a
\* given directory never reaches a file below a sub-directory of it whose
\* name starts with '.'; a run whose paths are all existing files of the
\* excluded kinds touches nothing and returns nil, and the error of a run
\* never comes from a file that was not parsed.
C24_SkipsTestNonGoAndWalkedHidden ==
    /\ [][ProcessFileStep =>
            /\ GoNotTest(ProcessedFile)
            /\ ~BelowHiddenDirUnder(config.Paths[pathIndex], ProcessedFile)
            /\ writtenFiles' \in {writtenFiles, Append(writtenFiles, ProcessedFile)}]_vars
    /\ [][~ProcessFileStep => (writtenFiles' = writtenFiles /\ fs' = fs)]_vars
    /\ [](OnlySkippedFiles =>
            (parsedFiles = <<>> /\ writtenFiles = <<>> /\ runErr = NoError /\ pc # "panic"))
    /\ []((pc = "returned" /\ runErr # NoError
              /\ runErr[Len(runErr)].op \in {"parse", "format", "write"}) =>
            (parsedFiles # <<>> /\ runErr[Len(runErr)].path = parsedFiles[Len(parsedFiles)]))

\* Run has walked m, passing over m/.h and m/b_test.go, then handled the
\* given file m/.h/h.go, and returned nil
C24_Witness ==
    /\ pc = "returned"
    /\ runErr = NoError
    /\ config.Paths = <<ModuleDir, Join(Join(ModuleDir, HiddenDir), HGo)>>
    /\ parsedFiles = <<Join(ModuleDir, AGo), Join(Join(ModuleDir, PkgDir), QGo),
                       Join(Join(ModuleDir, HiddenDir), HGo)>>

\* the files a walk of the entries of dir handles when none fails, in order
RECURSIVE FilesBelow(_, _, _)
FilesBelow(fsys, dir, entries) ==
    IF entries = <<>> THEN <<>>
    ELSE LET path == Join(dir, Head(entries))
             first == IF fsys[path].isDir
                        THEN IF HasPrefix(Head(entries), Dot) THEN <<>>
                             ELSE FilesBelow(fsys, path, ReadDir(fsys, path))
                      ELSE IF GoNotTest(Head(entries)) THEN <<path>>
                      ELSE <<>>
         IN  first \o FilesBelow(fsys, dir, Tail(entries))

\* the files Run handles for the given paths when nothing fails, in order
RECURSIVE FilesOfPaths(_, _)
FilesOfPaths(fsys, paths) ==
    IF paths = <<>> THEN <<>>
    ELSE LET path == Head(paths)
             first == IF path \notin DOMAIN fsys THEN <<>>
                      ELSE IF fsys[path].isDir
                        THEN IF checkGoModule(fsys, path)
                               THEN FilesBelow(fsys, path, ReadDir(fsys, path))
                               ELSE <<>>
                      ELSE IF GoNotTest(path) THEN <<path>>
                      ELSE <<>>
         IN  first \o FilesOfPaths(fsys, Tail(paths))

IsPrefix(a, b) == Len(a) <= Len(b) /\ SubSeq(b, 1, Len(a)) = a

SortedListsAst(ds) ==
    UNION {{sortMethods(ms) : ms \in GetMethodsAst(cg)} : cg \in buildCallGraphAst(ds)}

\* C23: Sort of the go/ast variant gives the same result whatever order the
\* language iterates its maps in: every graph it can build for the file
\* has the MaxDepth and InDegree of the graph it built, every list it can
\* compute is the sorted list it computed, and every result it can return
\* has the changed flag and the content it returned.
C23_AstSortDeterministic ==
    pc = "done" =>
        /\ \A cg \in buildCallGraphAst(decls) : cg.methods = callGraph.methods
        /\ \A l \in SortedListsAst(decls) : Len(l) > 0 => l = sorted
        /\ \A r \in SorterSort(decls, ~err) : r.changed = changed /\ r.content = content

\* C27: the memoizing depth computation of the go/ast variant gives every
\* method the MaxDepth that the non-memoizing computation of the dst variant
\* (calculateMaxDepth with a fresh visited set per start) gives it on the
\* same graph, whatever order the start nodes are taken in.
C27_MemoizedDepthEqualsPlainDepth ==
    pc = "done" =>
        \A key \in DOMAIN callGraph.methods :
            callGraph.methods[key].MaxDepth = calculateMaxDepth(callGraph, key, {})

\* the declarations without the calls whose selector is not declared as a
\* method of the caller's receiver type
WithoutUnresolvedCalls(ds) ==
    [i \in 1..Len(ds) |->
        IF IsMethodDecl(ds[i])
          THEN [ds[i] EXCEPT !.body =
                  SelectSeq(ds[i].body, LAMBDA c : DeclaredOnTypeOf(ds, ds[i], c.sel))]
          ELSE ds[i]]

\* C28: in the go/ast variant a call on the receiver to a name that is not a
\* declared method of the receiver type is dropped: the MaxDepth and
\* InDegree of every method are what the variant computes for the file
\* without those calls, and a method all of whose calls are to unknown names
\* has MaxDepth 0.
C28_AstUnresolvedCallsDropped ==
    pc = "done" =>
        /\ callGraph.methods
              \in {cg.methods : cg \in buildCallGraphAst(WithoutUnresolvedCalls(decls))}
        /\ \A d \in Range(decls) :
              (IsMethodDecl(d) /\ \A i \in 1..Len(d.body) : ~DeclaredOnTypeOf(decls, d, d.body[i].sel))
                 => callGraph.methods[methodKey(TypeNameOf(d), d.name)].MaxDepth = 0

(***************************************************************************)
(* Properties of formatFile                                                *)
(***************************************************************************)
\* line i begins a top-level declaration: it begins with "func ", "type " or
\* "//" and is not a line below a doc comment line
StartsDecl(lines, i) ==
    /\ \/ HasPrefix(lines[i], <<102, 117, 110, 99, 32>>)
       \/ HasPrefix(lines[i], <<116, 121, 112, 101, 32>>)
       \/ HasPrefix(lines[i], <<47, 47>>)
    /\ ~(i > 1 /\ HasPrefix(lines[i - 1], <<47, 47>>))

\* out is inp with empty lines put in
RECURSIVE OnlyInserted(_, _)
OnlyInserted(inp, out) ==
    IF out = <<>> THEN inp = <<>>
    ELSE IF inp # <<>> /\ Head(inp) = Head(out) THEN OnlyInserted(Tail(inp), Tail(out))
    ELSE Head(out) = <<>> /\ OnlyInserted(inp, Tail(out))

\* C30: in the text formatFile returns every top-level declaration stands
\* exactly one blank line below what is before it, also when the
\* declarations are one-line methods or have a doc comment, and the text is
\* the text format.Node wrote with empty lines put in: no line is removed
\* and none moved.
C30_OneBlankLineBetweenDecls ==
    (pc = "formatted" /\ ~err) =>
        LET out == Split(content.text)
        IN  /\ \A i \in 2..Len(out) :
                  StartsDecl(out, i) => (out[i - 1] = <<>> /\ (i > 2 => out[i - 2] # <<>>))
            /\ OnlyInserted(Split(buf), out)

====
